---- MODULE Spec2Model ----
(***************************************************************************)
(* Model of the query endpoint of nlp-to-sql (src/unnamed/part_000):       *)
(* text -> preprocessQuery -> classifyIntent -> generateSQLWithGroq ->     *)
(* validateSQLWithGemini -> executeSQLQuery -> row store -> response.      *)
(*                                                                         *)
(* Texts are TLA+ strings, handled character by character.  The regular    *)
(* expressions of the source are written as syntax trees and matched by a  *)
(* backtracking matcher that lists the possible matches in the priority    *)
(* order of the JavaScript engine, so the first one is the one the code    *)
(* sees.  The pictograms that open the milestone strings of the source     *)
(* are written as ASCII tags ([ok], [..], [i], [x], [fix], [list]).        *)
(***************************************************************************)
EXTENDS Integers, Sequences, FiniteSets, TLC

(***************************************************************************)
(* Characters and strings                                                  *)
(***************************************************************************)
LowerLetters ==
  <<"a","b","c","d","e","f","g","h","i","j","k","l","m",
    "n","o","p","q","r","s","t","u","v","w","x","y","z">>

UpperLetters ==
  <<"A","B","C","D","E","F","G","H","I","J","K","L","M",
    "N","O","P","Q","R","S","T","U","V","W","X","Y","Z">>

Digits == {"0","1","2","3","4","5","6","7","8","9"}

Range(f) == {f[i] : i \in DOMAIN f}

\* \w of a JavaScript regular expression
WordChars == Range(LowerLetters) \cup Range(UpperLetters) \cup Digits \cup {"_"}

\* \s of a JavaScript regular expression (the members that occur in the inputs)
SpaceChars == {" ", "\n", "\t"}

CharAt(s, i) == SubSeq(s, i, i)

LowerOf == [c \in Range(UpperLetters) |->
              LowerLetters[CHOOSE k \in 1..26 : UpperLetters[k] = c]]

UpperOf == [c \in Range(LowerLetters) |->
              UpperLetters[CHOOSE k \in 1..26 : LowerLetters[k] = c]]

LowerChar(c) == IF c \in DOMAIN LowerOf THEN LowerOf[c] ELSE c

UpperChar(c) == IF c \in DOMAIN UpperOf THEN UpperOf[c] ELSE c

\* B applied to the value of v, v being evaluated once
Val(v, B(_)) == CHOOSE r \in {B(y) : y \in {v}} : TRUE

\* a function as a table, computed once
Table(f) == f @@ <<>>

RECURSIVE toLowerCase(_)
toLowerCaseV(s) ==
  IF Len(s) = 0 THEN ""
  ELSE IF Len(s) = 1 THEN LowerChar(s)
  ELSE toLowerCase(SubSeq(s, 1, Len(s) \div 2))
         \o toLowerCase(SubSeq(s, Len(s) \div 2 + 1, Len(s)))

toLowerCase(s) == Val(s, toLowerCaseV)

RECURSIVE toUpperCase(_)
toUpperCaseV(s) ==
  IF Len(s) = 0 THEN ""
  ELSE IF Len(s) = 1 THEN UpperChar(s)
  ELSE toUpperCase(SubSeq(s, 1, Len(s) \div 2))
         \o toUpperCase(SubSeq(s, Len(s) \div 2 + 1, Len(s)))

toUpperCase(s) == Val(s, toUpperCaseV)

\* String.prototype.substring(from) with a 0-based index, given 1-based here
From(s, i) == Val(s, LAMBDA v : SubSeq(v, i, Len(v)))

startsWith(s, p) ==
  Val(<<s, p>>, LAMBDA a : Len(a[2]) <= Len(a[1]) /\ SubSeq(a[1], 1, Len(a[2])) = a[2])

\* String.prototype.indexOf, 1-based; 0 when absent
indexOfV(s, p) ==
  LET hits == {i \in 1..(Len(s) - Len(p) + 1) : SubSeq(s, i, i + Len(p) - 1) = p}
  IN IF hits = {} THEN 0 ELSE CHOOSE i \in hits : \A j \in hits : i <= j

indexOf(s, p) == Val(<<s, p>>, LAMBDA a : indexOfV(a[1], a[2]))

includes(s, p) == indexOf(s, p) # 0

\* String.prototype.trim
trimV(s) ==
  LET keep == {i \in 1..Len(s) : CharAt(s, i) \notin SpaceChars}
  IN IF keep = {} THEN ""
     ELSE SubSeq(s, CHOOSE i \in keep : \A j \in keep : i <= j,
                    CHOOSE i \in keep : \A j \in keep : i >= j)

trim(s) == Val(s, trimV)

(***************************************************************************)
(* Regular expressions.  A pattern is a sequence of pieces; the matcher    *)
(* returns, in backtracking order, the tuples of positions reached after   *)
(* each piece.  Capturing groups are pieces of the top-level sequence.     *)
(***************************************************************************)
Lit(str)        == [t |-> "lit", s |-> str]
Cls(chars)      == [t |-> "cls", c |-> chars, neg |-> FALSE]
NotCls(chars)   == [t |-> "cls", c |-> chars, neg |-> TRUE]
Cat(rs)         == [t |-> "cat", rs |-> rs]
Alt(rs)         == [t |-> "alt", rs |-> rs]
Star(r)         == [t |-> "rep", r |-> r, min |-> 0, lazy |-> FALSE]
Plus(r)         == [t |-> "rep", r |-> r, min |-> 1, lazy |-> FALSE]
LazyStar(r)     == [t |-> "rep", r |-> r, min |-> 0, lazy |-> TRUE]
LazyPlus(r)     == [t |-> "rep", r |-> r, min |-> 1, lazy |-> TRUE]
Opt(r)          == [t |-> "opt", r |-> r]
Bos             == [t |-> "bos"]
Eos             == [t |-> "eos"]
AnyChar         == NotCls({})
\* the dot of a regular expression: any character but a line break
Dot             == NotCls({"\n"})
WS              == Cls(SpaceChars)

\* the concatenation of a sequence of sequences
RECURSIVE Flat(_)
FlatV(ss) ==
  IF Len(ss) = 0 THEN <<>>
  ELSE IF Len(ss) = 1 THEN ss[1]
  ELSE Flat(SubSeq(ss, 1, Len(ss) \div 2))
         \o Flat(SubSeq(ss, Len(ss) \div 2 + 1, Len(ss)))

Flat(ss) == Val(ss, FlatV)

Last(t) == t[Len(t)]

\* a sequence of tuples without those that end where an earlier one ends
\* (what follows a partial match depends on its end only, and the earlier
\* one is tried first)
FirstPerEnd(front) ==
  LET tagged == [j \in 1..Len(front) |-> <<j, front[j]>>]
      kept   == SelectSeq(tagged, LAMBDA x :
                  \A h \in 1..(x[1] - 1) : Last(front[h]) # Last(x[2]))
  IN [j \in 1..Len(kept) |-> kept[j][2]]

ClsHit(r, c, ci) ==
  LET in == IF ci THEN \E d \in r.c : LowerChar(d) = LowerChar(c) ELSE c \in r.c
  IN IF r.neg THEN ~in ELSE in

\* the positions reached by matching the same piece again and again from i,
\* i first (a piece that matches in one way only)
RECURSIVE Chain(_, _, _, _)

\* the ends of the matches of the pieces rs[k..] in a row, from the ends in
\* front of the pieces before them
RECURSIVE CatFold(_, _, _, _, _)

\* the positions where a match of r that starts at position i of s can end,
\* in the order the backtracking tries them
RECURSIVE M(_, _, _, _)
M(r, s, i, ci) ==
  CASE r.t = "lit" ->
         IF /\ i + Len(r.s) <= Len(s) + 1
            /\ \A k \in 1..Len(r.s) :
                 IF ci THEN LowerChar(CharAt(s, i + k - 1)) = LowerChar(CharAt(r.s, k))
                       ELSE CharAt(s, i + k - 1) = CharAt(r.s, k)
         THEN <<i + Len(r.s)>> ELSE <<>>
    [] r.t = "cls" ->
         IF i <= Len(s) /\ ClsHit(r, CharAt(s, i), ci) THEN <<i + 1>> ELSE <<>>
    [] r.t = "bos" -> IF i = 1 THEN <<i>> ELSE <<>>
    [] r.t = "eos" -> IF i = Len(s) + 1 THEN <<i>> ELSE <<>>
    [] r.t = "alt" ->
         Flat([k \in 1..Len(r.rs) |-> M(r.rs[k], s, i, ci)])
    [] r.t = "opt" -> M(r.r, s, i, ci) \o <<i>>
    [] r.t = "cat" -> CatFold(r.rs, s, ci, 1, <<i>>)
    [] r.t = "rep" /\ r.r.t = "cls" ->
         \* a repeated character class: the run of matching characters
         Val(Cardinality({j \in i..Len(s) :
                \A k \in i..j : ClsHit(r.r, CharAt(s, k), ci)}),
             LAMBDA n :
               IF n < r.min THEN <<>>
               ELSE IF r.lazy
               THEN [k \in 1..(n - r.min + 1) |-> i + r.min + k - 1]
               ELSE [k \in 1..(n - r.min + 1) |-> i + n - k + 1])
    [] r.t = "rep" /\ r.r.t # "cls" ->
         Val(Chain(r.r, s, i, ci), LAMBDA c :
           IF Len(c) <= r.min THEN <<>>
           ELSE IF r.lazy THEN SubSeq(c, r.min + 1, Len(c))
           ELSE [k \in 1..(Len(c) - r.min) |-> c[Len(c) - k + 1]])

Chain(r, s, i, ci) ==
  Val(M(r, s, i, ci), LAMBDA e :
    IF Len(e) = 0 \/ e[1] <= i THEN <<i>>
    ELSE <<i>> \o Chain(r, s, e[1], ci))

CatFold(rs, s, ci, k, front) ==
  IF k > Len(rs) THEN front
  ELSE Val(FirstPerEnd([j \in 1..Len(front) |-> <<front[j]>>]), LAMBDA f :
         Val(Flat([j \in 1..Len(f) |-> M(rs[k], s, f[j][1], ci)]), LAMBDA g :
           CatFold(rs, s, ci, k + 1, g)))

\* the partial matches of the pieces rs[1..k] from those of rs[1..k-1]: a
\* partial match is the tuple of its start and of the positions after each
\* piece, and front lists them best first
Step(rs, s, ci, k, front) ==
  FirstPerEnd(Flat([j \in 1..Len(front) |->
    Val(M(rs[k], s, Last(front[j]), ci), LAMBDA es :
      [n \in 1..Len(es) |-> Append(front[j], es[n])])]))

RECURSIVE MGFold(_, _, _, _, _)
MGFold(rs, s, ci, k, front) ==
  IF k > Len(rs) \/ Len(front) = 0 THEN front
  ELSE Val(Step(rs, s, ci, k, front), LAMBDA f : MGFold(rs, s, ci, k + 1, f))

NoMatch == [found |-> FALSE]

ExecV(rs, s, ci) ==
  Val(MGFold(rs, s, ci, 1, [i \in 1..(Len(s) + 1) |-> <<i>>]), LAMBDA front :
    IF Len(front) = 0 THEN NoMatch
    ELSE [found |-> TRUE, start |-> front[1][1], at |-> Tail(front[1]),
          end |-> Last(front[1])])

\* String.prototype.match without the g flag: the leftmost match, and at
\* that start the first one in backtracking order
Exec(rs, s, ci) == Val(<<rs, s>>, LAMBDA a : ExecV(a[1], a[2], ci))

\* the text of piece k of a match m of s (piece 1 starts at m.start)
Group(m, s, k) ==
  Val(<<m, k>>, LAMBDA a :
    SubSeq(s, IF a[2] = 1 THEN a[1].start ELSE a[1].at[a[2] - 1],
           a[1].at[a[2]] - 1))

\* the text of a match
Matched(m, s) == Val(m, LAMBDA v : SubSeq(s, v.start, v.end - 1))

\* String.prototype.replace with a pattern without the g flag
Replace(rs, s, ci, by) ==
  Val(<<s, Exec(rs, s, ci)>>, LAMBDA a :
    IF a[2].found
    THEN SubSeq(a[1], 1, a[2].start - 1) \o by \o From(a[1], a[2].end)
    ELSE a[1])

\* String.prototype.replace with the g flag and a fixed replacement
RECURSIVE ReplaceAll(_, _, _, _)
ReplaceAllV(rs, s, ci, by, m) ==
  IF ~m.found THEN s
  ELSE IF m.end = m.start
       THEN IF m.start > Len(s) THEN s \o by
            ELSE SubSeq(s, 1, m.start - 1) \o by \o CharAt(s, m.start)
                   \o ReplaceAll(rs, From(s, m.start + 1), ci, by)
       ELSE SubSeq(s, 1, m.start - 1) \o by
              \o ReplaceAll(rs, From(s, m.end), ci, by)

ReplaceAll(rs, s, ci, by) ==
  Val(<<rs, s, by>>, LAMBDA a :
    Val(Exec(a[1], a[2], ci), LAMBDA m : ReplaceAllV(a[1], a[2], ci, a[3], m)))

(***************************************************************************)
(* preprocessQuery and classifyIntent                                      *)
(***************************************************************************)
preprocessQuery(nlQuery) ==
  LET lowered   == trim(toLowerCase(nlQuery))
      collapsed == ReplaceAll(<<Plus(WS)>>, lowered, FALSE, " ")
      stripped  == ReplaceAll(<<NotCls(WordChars \cup SpaceChars)>>,
                              collapsed, FALSE, " ")
  IN trim(stripped)

addKeywords    == {"add", "create", "new", "insert", "make"}
deleteKeywords == {"delete", "remove", "drop"}
updateKeywords == {"update", "edit", "change", "modify", "mark", "complete",
                   "finish", "done", "set"}
listKeywords   == {"list", "show", "get", "find", "select", "display"}

classifyIntent(nlQuery) ==
  IF \/ includes(nlQuery, "show") \/ includes(nlQuery, "list")
     \/ includes(nlQuery, "display") \/ includes(nlQuery, "get")
  THEN "READ"
  ELSE IF /\ includes(nlQuery, "mark")
          /\ (includes(nlQuery, "done") \/ includes(nlQuery, "complete"))
  THEN "UPDATE"
  ELSE IF \/ includes(nlQuery, "finish")
          \/ (includes(nlQuery, "set") /\ includes(nlQuery, "done"))
  THEN "UPDATE"
  ELSE IF \E k \in addKeywords : includes(nlQuery, k) THEN "CREATE"
  ELSE IF \E k \in deleteKeywords : includes(nlQuery, k) THEN "DELETE"
  ELSE IF \E k \in updateKeywords : includes(nlQuery, k) THEN "UPDATE"
  ELSE IF \E k \in listKeywords : includes(nlQuery, k) THEN "READ"
  ELSE "READ"

(***************************************************************************)
(* extractCleanSQL                                                         *)
(***************************************************************************)
SqlKeyword == Alt(<<Lit("SELECT"), Lit("INSERT"), Lit("UPDATE"), Lit("DELETE")>>)

sqlKeywords == <<"SELECT", "INSERT", "UPDATE", "DELETE">>

Quote == Cls({"\"", "'"})

\* /(SELECT|INSERT|UPDATE|DELETE)[\s\S]*?;?$/i
sqlPattern1 == <<SqlKeyword, LazyStar(AnyChar), Opt(Lit(";")), Eos>>

\* /(?:query|sql)[\x22']?\s*:?\s*[\x22']?(SELECT|INSERT|UPDATE|DELETE)[\s\S]*?[\x22']?;?/i
sqlPattern2 ==
  <<Alt(<<Lit("query"), Lit("sql")>>), Opt(Quote), Star(WS), Opt(Lit(":")),
    Star(WS), Opt(Quote), SqlKeyword, LazyStar(AnyChar), Opt(Quote),
    Opt(Lit(";"))>>

\* /(?:here\s+is|query\s+is|sql\s+is)[\s\S]*?(SELECT|INSERT|UPDATE|DELETE)[\s\S]*?;?$/i
sqlPattern3 ==
  <<Alt(<<Cat(<<Lit("here"), Plus(WS), Lit("is")>>),
          Cat(<<Lit("query"), Plus(WS), Lit("is")>>),
          Cat(<<Lit("sql"), Plus(WS), Lit("is")>>)>>),
    LazyStar(AnyChar), SqlKeyword, LazyStar(AnyChar), Opt(Lit(";")), Eos>>

sqlPatterns == <<sqlPattern1, sqlPattern2, sqlPattern3>>

\* .replace(/;+$/, '')
stripSemicolons(s) == Replace(<<Plus(Lit(";")), Eos>>, s, FALSE, "")

\* .replace(/^.*?(SELECT|INSERT|UPDATE|DELETE)/i, '$1').replace(/;+$/, '').trim()
cleanExtracted(sql) ==
  Val(sql, LAMBDA text :
    Val(Exec(<<Bos, LazyStar(Dot), SqlKeyword>>, text, TRUE), LAMBDA m :
      trim(stripSemicolons(IF m.found THEN Group(m, text, 3) \o From(text, m.end)
                           ELSE text))))

startsWithSqlKeyword(s) == Exec(<<Bos, SqlKeyword>>, s, TRUE).found

RECURSIVE extractByPattern(_, _)
RECURSIVE extractByKeyword(_, _)

extractByKeyword(cleaned, k) ==
  IF k > Len(sqlKeywords) THEN trim(stripSemicolons(cleaned))
  ELSE Val(indexOf(toUpperCase(cleaned), sqlKeywords[k]), LAMBDA index :
         IF index = 0 THEN extractByKeyword(cleaned, k + 1)
         ELSE Val(trim(stripSemicolons(From(cleaned, index))), LAMBDA extracted :
                IF extracted # "" THEN extracted
                ELSE extractByKeyword(cleaned, k + 1)))

extractByPattern(cleaned, k) ==
  IF k > Len(sqlPatterns) THEN extractByKeyword(cleaned, 1)
  ELSE Val(Exec(sqlPatterns[k], cleaned, TRUE), LAMBDA m :
         IF ~m.found THEN extractByPattern(cleaned, k + 1)
         ELSE Val(cleanExtracted(Matched(m, cleaned)), LAMBDA sql :
                IF sql # "" /\ startsWithSqlKeyword(sql) THEN sql
                ELSE extractByPattern(cleaned, k + 1)))

\* A TLA+ string cannot hold the backquote: the tilde stands for it in every
\* text of this module, so a markdown fence reads ~~~.
Fence == "~~~"

\* the first replacement taking everything after the fence with it
extractCleanSQLFenceToEnd(rawText) ==
  Val(trim(ReplaceAll(<<Lit(Fence), Opt(Lit("\n"))>>,
                      ReplaceAll(<<Lit(Fence \o "sql"), Star(AnyChar)>>,
                                 rawText, TRUE, ""),
                      FALSE, "")),
      LAMBDA cleaned : extractByPattern(cleaned, 1))

extractCleanSQL(rawText) ==
  Val(trim(ReplaceAll(<<Lit(Fence), Opt(Lit("\n"))>>,
                      ReplaceAll(<<Lit(Fence \o "sql"), Opt(Lit("\n"))>>,
                                 rawText, TRUE, ""),
                      FALSE, "")),
      LAMBDA cleaned : extractByPattern(cleaned, 1))

(***************************************************************************)
(* extractTaskDescription and fixSQLSyntax                                 *)
(***************************************************************************)
capitalize(s) ==
  Val(s, LAMBDA v : IF Len(v) = 0 THEN "" ELSE UpperChar(CharAt(v, 1)) \o From(v, 2))

\* /^(create|add|new|make|insert)\s+(a\s+)?(task|todo|item)\s+(for\s+me\s+)?(to\s+)?/i
commandPhrase ==
  <<Bos,
    Alt(<<Lit("create"), Lit("add"), Lit("new"), Lit("make"), Lit("insert")>>),
    Plus(WS), Opt(Cat(<<Lit("a"), Plus(WS)>>)),
    Alt(<<Lit("task"), Lit("todo"), Lit("item")>>), Plus(WS),
    Opt(Cat(<<Lit("for"), Plus(WS), Lit("me"), Plus(WS)>>)),
    Opt(Cat(<<Lit("to"), Plus(WS)>>))>>

extractTaskDescription(nlQuery) ==
  Val(trim(Replace(<<Lit(","), Eos>>,
                   Replace(commandPhrase, toLowerCase(nlQuery), TRUE, ""),
                   FALSE, "")),
      LAMBDA cleaned :
        IF \/ startsWith(cleaned, "order ") \/ startsWith(cleaned, "buy ")
           \/ startsWith(cleaned, "call ")
        THEN capitalize(cleaned)
        ELSE IF includes(cleaned, " to ")
        THEN capitalize(From(cleaned, indexOf(cleaned, " to ") + 4))
        ELSE capitalize(cleaned))

\* .replace(/'/g, two single quotes)
escapeQuotes(s) == ReplaceAll(<<Lit("'")>>, s, FALSE, "''")

NotQuote == NotCls({"'", "\""})
NotArgEnd == NotCls({",", ")"})
ValueWord ==
  Alt(<<Lit("true"), Lit("false"), Lit("null"), Plus(Cls(Digits))>>)

\* /VALUES\s*\(\s*([^'\x22][^,)]*[^'\x22\s][^,)]*),\s*(true|false|null|\d+)\s*\)/i
valuesPattern1 ==
  <<Lit("VALUES"), Star(WS), Lit("("), Star(WS),
    Cat(<<NotQuote, Star(NotArgEnd), NotCls({"'", "\""} \cup SpaceChars),
          Star(NotArgEnd)>>),
    Lit(","), Star(WS), ValueWord, Star(WS), Lit(")")>>

\* /VALUES\s*\(\s*([^'\x22][^,)]+),\s*(true|false|null|\d+)\s*\)/i
valuesPattern2 ==
  <<Lit("VALUES"), Star(WS), Lit("("), Star(WS),
    Cat(<<NotQuote, Plus(NotArgEnd)>>),
    Lit(","), Star(WS), ValueWord, Star(WS), Lit(")")>>

valuesPatterns == <<valuesPattern1, valuesPattern2>>

\* /SET\s+(\w+)\s*=\s*([^'\x22][^,\s;]+)/i
setPattern ==
  <<Lit("SET"), Plus(WS), Plus(Cls(WordChars)), Star(WS), Lit("="), Star(WS),
    Cat(<<NotQuote, Plus(NotCls({",", ";"} \cup SpaceChars))>>)>>

RECURSIVE fixInsert(_, _, _)
fixInsert(sql, escapedDescription, k) ==
  IF k > Len(valuesPatterns) THEN sql
  ELSE Val(Exec(valuesPatterns[k], sql, TRUE), LAMBDA m :
         IF m.found
         THEN Replace(valuesPatterns[k], sql, TRUE,
                "VALUES ('" \o escapedDescription \o "', " \o Group(m, sql, 8) \o ")")
         ELSE fixInsert(sql, escapedDescription, k + 1))

fixSQLSyntax(sql, originalQuery) ==
  Val(<<sql, toUpperCase(sql), Exec(setPattern, sql, TRUE),
        escapeQuotes(extractTaskDescription(originalQuery))>>, LAMBDA a :
    IF /\ includes(a[2], "UPDATE TODOS SET")
       /\ a[3].found
       /\ toLowerCase(Group(a[3], a[1], 3)) = "title"
    THEN Replace(setPattern, a[1], TRUE,
           "SET " \o Group(a[3], a[1], 3) \o " = '" \o a[4] \o "'")
    ELSE IF includes(a[2], "INSERT INTO TODOS")
    THEN fixInsert(a[1], a[4], 1) ELSE a[1])

(***************************************************************************)
(* validateSQLWithGemini.  A verdict, like every JavaScript object of the   *)
(* model, is a function from the names of the properties it has.           *)
(***************************************************************************)
Obj(name, value) == name :> value

NoProps == [n \in {} |-> ""]

Has(obj, name) == name \in DOMAIN obj

\* truthiness of a string property that may be missing
TruthyText(obj, name) == Has(obj, name) /\ obj[name] # ""

\* truthiness of a boolean property that may be missing
TruthyFlag(obj, name) == Has(obj, name) /\ obj[name] = TRUE

Put(obj, name, value) == (name :> value) @@ obj

WSs == Star(WS)

JsonText ==
  Cat(<<Lit("\""), Star(NotCls({"\"", "\\", "\n", "\t"})), Lit("\"")>>)

JsonBool == Alt(<<Lit("true"), Lit("false")>>)

JsonMember(name, value) ==
  <<Lit("\"" \o name \o "\""), WSs, Lit(":"), WSs, value, WSs>>

JsonValue(name) == IF name = "valid" THEN JsonBool ELSE JsonText

RECURSIVE JsonMembers(_)
JsonMembers(names) ==
  IF Len(names) = 0 THEN <<>>
  ELSE JsonMember(Head(names), JsonValue(Head(names)))
         \o (IF Len(names) > 1 THEN <<Lit(","), WSs>> ELSE <<>>)
         \o JsonMembers(Tail(names))

\* the objects JSON.parse decodes in this model: the members valid, reason
\* and suggestion, each optional, in this order
JsonShapes ==
  {<<>>, <<"valid">>, <<"reason">>, <<"suggestion">>, <<"valid", "reason">>,
   <<"valid", "suggestion">>, <<"reason", "suggestion">>,
   <<"valid", "reason", "suggestion">>}

JsonPattern(names) == <<Bos, Lit("{"), WSs>> \o JsonMembers(names) \o <<Lit("}"), Eos>>

\* the piece of JsonPattern(names) that holds the value of member k
JsonValueAt(k) == 3 + 8 * (k - 1) + 5

JsonDecoded(text, names) ==
  Val(Exec(JsonPattern(names), text, FALSE), LAMBDA m :
    LET raw(k) == Group(m, text, JsonValueAt(k))
        val(k) == IF names[k] = "valid" THEN raw(k) = "true"
                  ELSE SubSeq(raw(k), 2, Len(raw(k)) - 1)
    IN Table([k \in {names[j] : j \in 1..Len(names)} |->
                val(CHOOSE j \in 1..Len(names) : names[j] = k)]))

SyntaxError == [threw |-> TRUE]

\* JSON.parse: the decoded object, or a SyntaxError
JSONparse(text) ==
  Val({names \in JsonShapes : Exec(JsonPattern(names), text, FALSE).found}, LAMBDA fits :
    IF fits = {} THEN SyntaxError
    ELSE [threw |-> FALSE, value |-> JsonDecoded(text, CHOOSE names \in fits : TRUE)])

dangerous == {"drop", "alter", "truncate", "delete from todos", "update todos set"}

\* /VALUES\s*\([^'\x22][^,)]+,\s*(true|false|\d+)\)/i
unquotedValues ==
  <<Lit("VALUES"), Star(WS), Lit("("), NotQuote, Plus(NotArgEnd), Lit(","),
    Star(WS), Alt(<<Lit("true"), Lit("false"), Plus(Cls(Digits))>>), Lit(")")>>

\* the local validation without its list of dangerous operations
fallbackValidationNoList(originalQuery, statement) ==
  IF Exec(unquotedValues, statement, TRUE).found
  THEN [valid |-> FALSE,
        reason |-> "String literals must be properly quoted with single quotes",
        suggestion |-> fixSQLSyntax(statement, originalQuery)]
  ELSE [valid |-> trim(statement) # ""]

\* lines 430-460: the local validation
fallbackValidation(originalQuery, statement) ==
  LET isDangerous ==
        \E keyword \in dangerous :
          includes(toLowerCase(statement), toLowerCase(keyword))
      hasUnquotedStrings == Exec(unquotedValues, statement, TRUE).found
  IN IF hasUnquotedStrings
     THEN [valid |-> FALSE,
           reason |-> "String literals must be properly quoted with single quotes",
           suggestion |-> fixSQLSyntax(statement, originalQuery)]
     ELSE IF isDangerous
     THEN [valid |-> FALSE,
           reason |-> "Query contains potentially dangerous operations"]
     ELSE [valid |-> trim(statement) # ""]

\* a reply of provider B: the call throws, or returns a text
GeminiThrows == [threw |-> TRUE]
GeminiText(text) == [threw |-> FALSE, text |-> text]

\* decodeReply taking a call that throws for a verdict of valid
decodeReplyFailOpen(reply) ==
  IF reply.threw THEN [ok |-> TRUE, parsed |-> [valid |-> TRUE]]
  ELSE Val(reply.text, LAMBDA text :
         Val(Exec(<<Lit("{"), Star(AnyChar), Lit("}")>>, text, FALSE), LAMBDA jsonMatch :
           IF ~jsonMatch.found THEN [ok |-> FALSE]
           ELSE Val(JSONparse(Matched(jsonMatch, text)), LAMBDA decoded :
                  IF decoded.threw THEN [ok |-> FALSE]
                  ELSE [ok |-> TRUE, parsed |-> decoded.value])))

\* lines 406-413: the object decoded from the reply, when the call returns
\* a text with a block that JSON.parse accepts
decodeReply(reply) ==
  IF reply.threw THEN [ok |-> FALSE]
  ELSE Val(reply.text, LAMBDA text :
         \* /\{[\s\S]*\}/
         Val(Exec(<<Lit("{"), Star(AnyChar), Lit("}")>>, text, FALSE), LAMBDA jsonMatch :
           IF ~jsonMatch.found THEN [ok |-> FALSE]
           ELSE Val(JSONparse(Matched(jsonMatch, text)), LAMBDA decoded :
                  IF decoded.threw THEN [ok |-> FALSE]
                  ELSE [ok |-> TRUE, parsed |-> decoded.value])))

\* lines 365-461, given what decodeReply made of the reply
validateSQLWithGemini(originalQuery, statement, decoded) ==
  IF ~decoded.ok THEN fallbackValidation(originalQuery, statement)
  ELSE IF TruthyText(decoded.parsed, "suggestion")
  THEN Val(extractCleanSQL(decoded.parsed["suggestion"]), LAMBDA suggestion :
         Put(decoded.parsed, "suggestion", fixSQLSyntax(suggestion, originalQuery)))
  ELSE decoded.parsed

(***************************************************************************)
(* executeSQLQuery and the four handlers, up to their first row-store call. *)
(* A plan holds the milestones pushed on the way and either the error      *)
(* thrown or the row-store operation the handler goes on to issue.         *)
(***************************************************************************)
Thrown(ms, message) == [ms |-> ms, threw |-> TRUE, error |-> message]
Issues(ms, call)    == [ms |-> ms, threw |-> FALSE, op |-> call]

NoFilter          == [by |-> "none"]
EqId(v)           == [by |-> "id", v |-> v]
EqTitle(v)        == [by |-> "title", v |-> v]
ILikeTitle(v)     == [by |-> "ilike", v |-> v]
EqCompleted(b)    == [by |-> "completed", v |-> b]

boolText(b) == IF b THEN "true" ELSE "false"

NotApostrophe == NotCls({"'"})

\* /INSERT INTO todos\s*\([^)]+\)\s*VALUES\s*\(\s*'([^']+)'\s*,\s*(true|false)\s*\)/i
insertPattern ==
  <<Lit("INSERT INTO todos"), WSs, Lit("("), Plus(NotCls({")"})), Lit(")"), WSs,
    Lit("VALUES"), WSs, Lit("("), WSs, Lit("'"), Plus(NotApostrophe), Lit("'"),
    WSs, Lit(","), WSs, JsonBool, WSs, Lit(")")>>

handleInsertQuery(sql) ==
  Val(<<sql, Exec(insertPattern, sql, TRUE)>>, LAMBDA a :
    IF ~a[2].found THEN Thrown(<<>>, "Could not parse INSERT statement")
    ELSE Val(<<Group(a[2], a[1], 12),
               toLowerCase(Group(a[2], a[1], 17)) = "true">>, LAMBDA v :
           Issues(<<"[i] Parsed INSERT: title=\"" \o v[1] \o "\", completed="
                      \o boolText(v[2])>>,
                  [kind |-> "insert", title |-> v[1], completed |-> v[2]])))

\* /title\s+LIKE\s+'%([^%']+)%'/i
titleLike ==
  <<Lit("title"), Plus(WS), Lit("LIKE"), Plus(WS), Lit("'%"),
    Plus(NotCls({"%", "'"})), Lit("%'")>>

\* /title\s*=\s*'([^']+)'/i
titleEquals ==
  <<Lit("title"), WSs, Lit("="), WSs, Lit("'"), Plus(NotApostrophe), Lit("'")>>

\* /completed\s*=\s*(true|false)/i
completedEquals == <<Lit("completed"), WSs, Lit("="), WSs, JsonBool>>

\* /id\s*=\s*'?([^'\s]+)'?/
idEquals ==
  <<Lit("id"), WSs, Lit("="), WSs, Opt(Lit("'")),
    Plus(NotCls({"'"} \cup SpaceChars)), Opt(Lit("'"))>>

\* /WHERE\s+(.+?)(?:\s+ORDER\s+BY|$)/i
selectWhere ==
  <<Lit("WHERE"), Plus(WS), LazyPlus(Dot),
    Alt(<<Cat(<<Plus(WS), Lit("ORDER"), Plus(WS), Lit("BY")>>), Eos>>)>>

selectFilter(whereClause) ==
  Val(<<whereClause, Exec(titleLike, whereClause, TRUE),
        Exec(titleEquals, whereClause, TRUE),
        Exec(completedEquals, whereClause, TRUE)>>, LAMBDA a :
    IF a[2].found
    THEN Issues(<<"[i] Filtering todos containing: \"" \o Group(a[2], a[1], 6) \o "\"">>,
                [kind |-> "select", filter |-> ILikeTitle(Group(a[2], a[1], 6))])
    ELSE IF a[3].found
    THEN Issues(<<"[i] Filtering todos with exact title: \""
                    \o Group(a[3], a[1], 6) \o "\"">>,
                [kind |-> "select", filter |-> EqTitle(Group(a[3], a[1], 6))])
    ELSE IF a[4].found
    THEN Val(toLowerCase(Group(a[4], a[1], 5)) = "true", LAMBDA completed :
           Issues(<<"[i] Filtering todos by completed status: " \o boolText(completed)>>,
                  [kind |-> "select", filter |-> EqCompleted(completed)]))
    ELSE Issues(<<>>, [kind |-> "select", filter |-> NoFilter]))

handleSelectQuery(sql) ==
  Val(<<sql, Exec(selectWhere, sql, TRUE)>>, LAMBDA a :
    IF a[2].found
    THEN Val(<<trim(Group(a[2], a[1], 3)), selectFilter(trim(Group(a[2], a[1], 3)))>>,
             LAMBDA w :
               [w[2] EXCEPT !.ms = <<"[i] Executing SELECT query",
                                     "[i] Parsing WHERE clause: " \o w[1]>> \o @])
    ELSE Issues(<<"[i] Executing SELECT query">>, [kind |-> "list"]))

\* (?:\s+WHERE\s+(.+))?
optionalWhere == <<Plus(WS), Lit("WHERE"), Plus(WS), Plus(Dot)>>

\* the text captured by (.+) in a match of optionalWhere, "" standing for
\* undefined
whereOf(text) ==
  Val(<<text, Exec(<<Bos>> \o optionalWhere, text, TRUE)>>, LAMBDA a :
    IF a[2].found THEN Group(a[2], a[1], 5) ELSE "")

\* /UPDATE todos SET\s+(\w+)\s*=\s*'([^']+)'(?:\s+WHERE\s+(.+))?/i
updatePattern ==
  <<Lit("UPDATE todos SET"), Plus(WS), Plus(Cls(WordChars)), WSs, Lit("="), WSs,
    Lit("'"), Plus(NotApostrophe), Lit("'"), Opt(Cat(optionalWhere))>>

\* /UPDATE todos SET\s+(\w+)\s*=\s*([^,\s]+)(?:\s+WHERE\s+(.+))?/i
updatePatternNoQuotes ==
  <<Lit("UPDATE todos SET"), Plus(WS), Plus(Cls(WordChars)), WSs, Lit("="), WSs,
    Plus(NotCls({","} \cup SpaceChars)), Opt(Cat(optionalWhere))>>

\* lines 707-751 and 785-813: the row filter of an UPDATE (withSubquery) or
\* of a DELETE; the milestone pushed with it
whereFilter(whereClause, withSubquery, verb) ==
  Val(<<whereClause, Exec(idEquals, whereClause, FALSE),
        Exec(titleEquals, whereClause, TRUE),
        Exec(titleLike, whereClause, TRUE)>>, LAMBDA a :
    IF includes(a[1], "id =")
    THEN IF a[2].found
         THEN [ms |-> <<"[i] " \o verb.id \o Group(a[2], a[1], 6)>>,
               known |-> TRUE, lookup |-> FALSE,
               filter |-> EqId(Group(a[2], a[1], 6))]
         ELSE [ms |-> <<>>, known |-> TRUE, lookup |-> FALSE, filter |-> NoFilter]
    ELSE IF includes(a[1], "title =")
    THEN IF a[3].found
         THEN [ms |-> <<"[i] " \o verb.title \o "\"" \o Group(a[3], a[1], 6) \o "\"">>,
               known |-> TRUE, lookup |-> FALSE,
               filter |-> EqTitle(Group(a[3], a[1], 6))]
         ELSE [ms |-> <<>>, known |-> TRUE, lookup |-> FALSE, filter |-> NoFilter]
    ELSE IF includes(a[1], "title LIKE")
    THEN IF a[4].found
         THEN [ms |-> <<"[i] " \o verb.like \o "\"" \o Group(a[4], a[1], 6) \o "\"">>,
               known |-> TRUE, lookup |-> FALSE,
               filter |-> ILikeTitle(Group(a[4], a[1], 6))]
         ELSE [ms |-> <<>>, known |-> TRUE, lookup |-> FALSE, filter |-> NoFilter]
    ELSE IF withSubquery /\ includes(a[1], "ORDER BY") /\ includes(a[1], "LIMIT")
    THEN [ms |-> <<>>, known |-> TRUE, lookup |-> TRUE, filter |-> NoFilter]
    ELSE [ms |-> <<>>, known |-> FALSE, lookup |-> FALSE, filter |-> NoFilter])

updateVerbs ==
  [id |-> "Updating todo with ID: ", title |-> "Updating todo with exact title: ",
   like |-> "Updating todos containing: "]

deleteVerbs ==
  [id |-> "Deleting todo with ID: ", title |-> "Deleting todo with title: ",
   like |-> "Deleting todos containing: "]

\* lines 687-751, given the column, the raw value and the WHERE clause
updateParsed(column, rawValue, whereClause) ==
  Val(<<column, rawValue, whereClause,
        whereFilter(whereClause, TRUE, updateVerbs)>>, LAMBDA a :
    LET parsed == <<"[i] Parsed UPDATE: " \o a[1] \o "=" \o a[2] \o ", WHERE: "
                      \o (IF a[3] = "" THEN "none" ELSE a[3])>>
        value  == IF a[2] = "true" \/ a[2] = "false"
                  THEN [bool |-> TRUE, v |-> a[2] = "true"]
                  ELSE [bool |-> FALSE, v |-> a[2]]
    IN IF a[3] = ""
       THEN Thrown(parsed, "UPDATE without WHERE clause is not allowed for safety")
       ELSE IF ~a[4].known
       THEN Thrown(parsed, "Unsupported WHERE clause in UPDATE: " \o a[3])
       ELSE Issues(parsed \o a[4].ms,
                   [kind |-> IF a[4].lookup THEN "lookup" ELSE "update",
                    column |-> a[1], value |-> value, filter |-> a[4].filter]))

handleUpdateQuery(sql) ==
  Val(<<sql, Exec(updatePattern, sql, TRUE),
        Exec(updatePatternNoQuotes, sql, TRUE)>>, LAMBDA a :
    IF a[2].found
    THEN updateParsed(Group(a[2], a[1], 3), Group(a[2], a[1], 8),
                      whereOf(Group(a[2], a[1], 10)))
    ELSE IF a[3].found
    THEN updateParsed(Group(a[3], a[1], 3), Group(a[3], a[1], 7),
                      whereOf(Group(a[3], a[1], 8)))
    ELSE Thrown(<<>>, "Could not parse UPDATE statement"))

\* /DELETE FROM todos(?:\s+WHERE\s+(.+))?/i
deletePattern == <<Lit("DELETE FROM todos"), Opt(Cat(optionalWhere))>>

\* handleDeleteQuery without the test of line 779
handleDeleteQueryUnguarded(sql) ==
  Val(<<sql, Exec(deletePattern, sql, TRUE)>>, LAMBDA a :
    IF ~a[2].found THEN Thrown(<<>>, "Could not parse DELETE statement")
    ELSE Val(<<whereOf(Group(a[2], a[1], 2)),
               whereFilter(whereOf(Group(a[2], a[1], 2)), FALSE, deleteVerbs)>>,
             LAMBDA w :
               Issues(<<"[i] Parsed DELETE with WHERE: " \o w[1]>> \o w[2].ms,
                      [kind |-> "delete", filter |-> w[2].filter])))

handleDeleteQuery(sql) ==
  Val(<<sql, Exec(deletePattern, sql, TRUE)>>, LAMBDA a :
    IF ~a[2].found THEN Thrown(<<>>, "Could not parse DELETE statement")
    ELSE Val(<<whereOf(Group(a[2], a[1], 2)),
               whereFilter(whereOf(Group(a[2], a[1], 2)), FALSE, deleteVerbs)>>,
             LAMBDA w :
               IF w[1] = ""
               THEN Thrown(<<>>, "DELETE without WHERE clause is not allowed for safety")
               ELSE IF ~w[2].known
               THEN Thrown(<<"[i] Parsed DELETE with WHERE: " \o w[1]>>,
                           "Unsupported WHERE clause in DELETE statement")
               ELSE Issues(<<"[i] Parsed DELETE with WHERE: " \o w[1]>> \o w[2].ms,
                           [kind |-> "delete", filter |-> w[2].filter])))

allowedTypes == {"select", "insert", "update", "delete"}

\* .toLowerCase().replace(/^\s*/, '').split(/\s+/)[0]
firstWord(text) ==
  Val(Replace(<<Bos, WSs>>, toLowerCase(text), FALSE, ""), LAMBDA t :
    Val(Exec(<<Plus(WS)>>, t, FALSE), LAMBDA m :
      IF m.found THEN SubSeq(t, 1, m.start - 1) ELSE t))

\* the handler's error as rethrown by the catch of lines 561-565
wrapped(plan) ==
  IF plan.threw
  THEN [plan EXCEPT !.error = "Database execution error: " \o @]
  ELSE plan

executeSQLQuery(statement) ==
  Val(<<statement, extractCleanSQL(statement)>>, LAMBDA a :
    Val(<<firstWord(a[2]),
          <<"[i] Cleaned SQL: \"" \o a[2] \o "\"",
            "[i] Detected query type: \"" \o firstWord(a[2]) \o "\"">> >>,
        LAMBDA q :
          IF q[1] \notin allowedTypes
          THEN Thrown(q[2], "Unsupported query type: \"" \o q[1]
                  \o "\". Allowed types: select, insert, update, delete. Raw input: \""
                  \o a[1] \o "\"")
          ELSE Val(wrapped(CASE q[1] = "insert" -> handleInsertQuery(a[2])
                             [] q[1] = "select" -> handleSelectQuery(a[2])
                             [] q[1] = "update" -> handleUpdateQuery(a[2])
                             [] q[1] = "delete" -> handleDeleteQuery(a[2])),
                   LAMBDA plan : [plan EXCEPT !.ms = q[2] \o @])))

(***************************************************************************)
(* generateSQLWithGroq, lines 274-282: what is made of provider A's reply  *)
(***************************************************************************)
generateSQLWithGroq(nlQuery, content) ==
  Val(extractCleanSQL(trim(content)), LAMBDA cleanSQL : fixSQLSyntax(cleanSQL, nlQuery))

(***************************************************************************)
(* The inputs: request bodies, replies of the two providers, store errors  *)
(***************************************************************************)
MaxTodos == 2

Queries ==
  {"Add a task to buy milk!", "show all tasks", "mark the first task as complete"}

\* the value of body.query: missing, empty, or a text
NoQuery == [given |-> FALSE]
QueryText(text) == [given |-> TRUE, text |-> text]

\* a request body: not decodable, or an object with or without a query
Bodies ==
  {[json |-> FALSE, query |-> NoQuery], [json |-> TRUE, query |-> NoQuery],
   [json |-> TRUE, query |-> QueryText("")]}
    \cup {[json |-> TRUE, query |-> QueryText(q)] : q \in Queries}

\* the texts provider A answers with
GroqTexts ==
  {"SELECT * FROM todos;",
   "SELECT * FROM todos\nWHERE completed = true\nLIMIT 10",
   "Here is the query:\n~~~sql\nSELECT * FROM todos WHERE completed = false;\n~~~",
   "INSERT INTO todos (title, completed) VALUES ('buy milk', false);",
   "INSERT INTO todos (title, completed) VALUES (buy milk, false)",
   "INSERT INTO public.todos (title, completed) VALUES (drop off keys, false)",
   "UPDATE todos SET completed = true WHERE id = (SELECT id FROM todos ORDER BY created_at LIMIT 1);",
   "UPDATE todos SET completed = true WHERE id IN (SELECT id FROM todos ORDER BY created_at LIMIT 1)",
   "UPDATE todos SET completed = true WHERE title LIKE '%milk%'",
   "UPDATE todos SET completed = true",
   "UPDATE todos SET title = 'buy milk' WHERE id = 1",
   "UPDATE todos SET id = 2 WHERE id = 1",
   "DELETE FROM todos WHERE title = 'buy milk'",
   "DELETE FROM todos WHERE completed = true",
   "DELETE FROM todos",
   "DROP TABLE todos;",
   ""}

\* the replies of provider B
GeminiReplies ==
  <<GeminiThrows,
    GeminiText("The statement looks fine."),
    GeminiText("~~~json\n{\"valid\": true}\n~~~"),
    GeminiText("{\"valid\": false, \"reason\": \"does not match the request\"}"),
    GeminiText("{\"valid\": false, \"reason\": \"wrong filter\", \"suggestion\": \"SELECT * FROM todos WHERE title LIKE '%milk%';\"}"),
    GeminiText("{\"valid\": true} (checked against {schema})"),
    GeminiText("{\"valid\": false, \"reason\": \"unsafe\", \"suggestion\": \"DELETE FROM todos\"}")>>

StoreErrors == {"connection refused"}

Numeral == <<"0", "1", "2", "3", "4", "5", "6", "7", "8", "9">>

\* the decimal text of a small number
NumText(n) == Numeral[n + 1]

(***************************************************************************)
(* The pure stages, tabulated over the inputs above                        *)
(***************************************************************************)
CleanedOf == Table([q \in Queries |-> preprocessQuery(q)])

IntentOf ==
  Val(CleanedOf, LAMBDA cleaned : Table([q \in Queries |-> classifyIntent(cleaned[q])]))

GeneratedOf ==
  Val(CleanedOf, LAMBDA cleaned :
    Table([k \in Queries \X GroqTexts |-> generateSQLWithGroq(cleaned[k[1]], k[2])]))

VerdictKeys ==
  Val(GeneratedOf, LAMBDA generated :
    {<<k[1], generated[k], r>> : k \in Queries \X GroqTexts, r \in DOMAIN GeminiReplies})

DecodedOf == Table([r \in DOMAIN GeminiReplies |-> decodeReply(GeminiReplies[r])])

VerdictOf ==
  Val(<<VerdictKeys, DecodedOf>>, LAMBDA a :
    Table([k \in a[1] |-> validateSQLWithGemini(k[1], k[2], a[2][k[3]])]))

RepairedOf ==
  Val(VerdictKeys, LAMBDA keys :
    Table([k \in {<<j[1], j[2]>> : j \in keys} |-> fixSQLSyntax(k[2], k[1])]))

(***************************************************************************)
(* POST, lines 118-135: the statement to execute                           *)
(***************************************************************************)
needsLocalFix(verdict) ==
  ~TruthyFlag(verdict, "valid") /\ ~TruthyText(verdict, "suggestion")

\* lines 118-126 with the suggestion left aside
finalSQLOfGenerated(nlQuery, statement, verdict) ==
  IF needsLocalFix(verdict) THEN RepairedOf[<<nlQuery, statement>>] ELSE statement

finalSQLOf(nlQuery, statement, verdict) ==
  IF needsLocalFix(verdict) THEN RepairedOf[<<nlQuery, statement>>]
  ELSE IF TruthyText(verdict, "suggestion") THEN verdict["suggestion"]
  ELSE statement

\* line 138 without its last test
rejectsUnrepaired(statement, verdict, final) ==
  ~TruthyFlag(verdict, "valid") /\ ~TruthyText(verdict, "suggestion")

\* line 138
rejects(statement, verdict, final) ==
  /\ ~TruthyFlag(verdict, "valid")
  /\ ~TruthyText(verdict, "suggestion")
  /\ final = statement

FinalSQLs ==
  Val(VerdictOf, LAMBDA verdicts :
    {finalSQLOf(k[1], k[2], verdicts[k]) : k \in DOMAIN verdicts})

PlanOf == Table([sql \in FinalSQLs |-> executeSQLQuery(sql)])

(***************************************************************************)
(* The row store: the rows of table todos                                  *)
(***************************************************************************)
\* the rows in the order of created_at, ascending or descending
RECURSIVE orderByCreatedAt(_, _)
orderByCreatedAt(rows, ascending) ==
  IF rows = {} THEN <<>>
  ELSE LET first == CHOOSE r \in rows : \A o \in rows :
                      IF ascending THEN r.created_at <= o.created_at
                                   ELSE r.created_at >= o.created_at
       IN <<first>> \o orderByCreatedAt(rows \ {first}, ascending)

IsNumeral(text) ==
  Len(text) > 0 /\ \A k \in 1..Len(text) : CharAt(text, k) \in Digits

\* .eq / .ilike on a row
Matches(row, filter) ==
  CASE filter.by = "none"      -> TRUE
    [] filter.by = "id"        -> NumText(row.id) = filter.v
    [] filter.by = "title"     -> row.title = filter.v
    [] filter.by = "ilike"     -> includes(toLowerCase(row.title), toLowerCase(filter.v))
    [] filter.by = "completed" -> row.completed = filter.v

\* the store refuses a filter on the integer column id by a text that is
\* not a number
WellTyped(filter) == filter.by = "id" => IsNumeral(filter.v)

\* the moments a text stands for in a timestamp column: a date before the
\* first moment of the store's clock
TimestampOf == [text \in {"2020-01-01"} |-> 0]

\* the number a text stands for in an integer column
NumOf(text) == CHOOSE n \in 0..9 : NumText(n) = text

\* the store takes a value for each of the four columns of the table, and
\* refuses a value of the wrong type or for an unknown column
Assignable(column, value) ==
  \/ column = "title" /\ ~value.bool
  \/ column = "completed" /\ value.bool
  \/ column = "id" /\ ~value.bool /\ \E n \in 0..9 : NumText(n) = value.v
  \/ column = "created_at" /\ ~value.bool /\ value.v \in DOMAIN TimestampOf

Assigned(row, column, value) ==
  CASE column = "title"      -> [row EXCEPT !.title = value.v]
    [] column = "completed"  -> [row EXCEPT !.completed = value.v]
    [] column = "id"         -> [row EXCEPT !.id = NumOf(value.v)]
    [] column = "created_at" -> [row EXCEPT !.created_at = TimestampOf[value.v]]

TypeError == "invalid input syntax"

\* id is the primary key
DuplicateKey == "duplicate key value violates unique constraint"

UniqueIds(rows) == \A a, b \in rows : a.id = b.id => a = b

\* the errors a call may come back with
ErrorsOf(wellFormed) == IF wellFormed THEN StoreErrors ELSE {TypeError}

(***************************************************************************)
(* The query endpoint: one request at a time, one after the other, against *)
(* a store that lasts.  log lists what the request at hand has done.       *)
(***************************************************************************)
VARIABLES config, store, nextId, pc, request, milestones, queries, query,
          cleanedQuery, intent, sqlQuery, validation, finalSQL, op, response,
          log, geminiReply, executed, waiting

vars == <<config, store, nextId, pc, request, milestones, queries, query,
          cleanedQuery, intent, sqlQuery, validation, finalSQL, op, response,
          log, geminiReply, executed, waiting>>

\* request is the body of the request at hand, geminiReply the reply of
\* provider B to it (0: not called yet) and executed the statements handed to
\* the executor
locals == <<query, cleanedQuery, intent, sqlQuery, validation, finalSQL, op>>

\* process.env: which of the three settings are there
Envs ==
  [SUPABASE_URL : BOOLEAN, SUPABASE_SERVICE_ROLE_KEY : BOOLEAN,
   GROQ_API_KEY : BOOLEAN]

NoOp == [kind |-> "none"]
NoResponse == [status |-> 0]

\* what a failing call of provider A throws
ProviderErrors == {"Connection error."}

\* what request.json() throws on a body that is no JSON
BodyError == "Unexpected end of JSON input"

\* waiting holds what belongs to the invocation of POST that is not running
\* while another one is: its position and its local variables
NotStarted ==
  [pc |-> "idle", request |-> [json |-> TRUE, query |-> NoQuery],
   milestones |-> <<>>, queries |-> NoProps, query |-> "", cleanedQuery |-> "",
   intent |-> "", sqlQuery |-> "", validation |-> NoProps, finalSQL |-> "",
   op |-> NoOp, response |-> NoResponse, log |-> <<>>, geminiReply |-> 0,
   executed |-> <<>>]

Init ==
  /\ config \in Envs
  /\ store = {}
  /\ nextId = 1
  /\ pc = "idle"
  /\ request = [json |-> TRUE, query |-> NoQuery]
  /\ milestones = <<>>
  /\ queries = NoProps
  /\ query = ""
  /\ cleanedQuery = ""
  /\ intent = ""
  /\ sqlQuery = ""
  /\ validation = NoProps
  /\ finalSQL = ""
  /\ op = NoOp
  /\ response = NoResponse
  /\ log = <<>>
  /\ geminiReply = 0
  /\ executed = <<>>
  /\ waiting = NotStarted

\* NextResponse.json(body, {status})
Respond(status, body, done) ==
  /\ response' = [status |-> status, body |-> body]
  /\ pc' = "responded"
  /\ log' = log \o done \o <<"responded">>

\* the catch of POST answering with the failure milestone alone
FatalTraceLost(ms, errorMessage, done) ==
  /\ milestones' = <<"[x] Error: " \o errorMessage>>
  /\ Respond(500, [success |-> FALSE, error |-> errorMessage,
                   milestones |-> <<"[x] Error: " \o errorMessage>>,
                   queries |-> queries], done)

\* lines 165-178: the catch of POST, ms being the trace when the error is
\* thrown
Fatal(ms, errorMessage, done) ==
  /\ milestones' = Append(ms, "[x] Error: " \o errorMessage)
  /\ Respond(500, [success |-> FALSE, error |-> errorMessage,
                   milestones |-> Append(ms, "[x] Error: " \o errorMessage),
                   queries |-> queries], done)

\* the success answered with status 202
SucceedAccepted(ms, result, done) ==
  /\ milestones' = Append(ms, "[ok] Milestone 6: Query executed successfully")
  /\ Respond(202, [success |-> TRUE,
                   message |-> "Successfully processed: \"" \o query \o "\"",
                   sql |-> finalSQL, data |-> result,
                   milestones |-> Append(ms, "[ok] Milestone 6: Query executed successfully"),
                   queries |-> queries],
             done \o <<"executed">>)

\* lines 154-163: the handler has returned result
Succeed(ms, result, done) ==
  /\ milestones' = Append(ms, "[ok] Milestone 6: Query executed successfully")
  /\ Respond(200, [success |-> TRUE,
                   message |-> "Successfully processed: \"" \o query \o "\"",
                   sql |-> finalSQL, data |-> result,
                   milestones |-> Append(ms, "[ok] Milestone 6: Query executed successfully"),
                   queries |-> queries],
             done \o <<"executed">>)

\* Receive without the check of GROQ_API_KEY
ReceiveUnconfigured(body) ==
  /\ pc \in {"idle", "responded"}
  /\ request' = body
  /\ geminiReply' = 0
  /\ executed' = <<>>
  /\ milestones' = <<>>
  /\ queries' = NoProps
  /\ query' = ""
  /\ cleanedQuery' = ""
  /\ intent' = ""
  /\ sqlQuery' = ""
  /\ validation' = NoProps
  /\ finalSQL' = ""
  /\ op' = NoOp
  /\ IF ~config.SUPABASE_URL \/ ~config.SUPABASE_SERVICE_ROLE_KEY
     THEN /\ response' = [status |-> 500,
                          body |-> [success |-> FALSE,
                                    error |-> "Database configuration missing",
                                    milestones |-> <<"[x] Database not configured">>,
                                    queries |-> NoProps]]
          /\ pc' = "responded"
          /\ log' = <<"responded">>
     ELSE /\ response' = NoResponse
          /\ pc' = "body"
          /\ log' = <<>>
  /\ UNCHANGED <<config, waiting, store, nextId>>

\* lines 46-74: a request arrives; the settings are checked
Receive(body) ==
  /\ pc \in {"idle", "responded"}
  /\ request' = body
  /\ geminiReply' = 0
  /\ executed' = <<>>
  /\ milestones' = <<>>
  /\ queries' = NoProps
  /\ query' = ""
  /\ cleanedQuery' = ""
  /\ intent' = ""
  /\ sqlQuery' = ""
  /\ validation' = NoProps
  /\ finalSQL' = ""
  /\ op' = NoOp
  /\ IF ~config.SUPABASE_URL \/ ~config.SUPABASE_SERVICE_ROLE_KEY
     THEN /\ response' = [status |-> 500,
                          body |-> [success |-> FALSE,
                                    error |-> "Database configuration missing",
                                    milestones |-> <<"[x] Database not configured">>,
                                    queries |-> NoProps]]
          /\ pc' = "responded"
          /\ log' = <<"responded">>
     ELSE IF ~config.GROQ_API_KEY
     THEN /\ response' = [status |-> 500,
                          body |-> [success |-> FALSE,
                                    error |-> "AI service configuration missing",
                                    milestones |-> <<"[x] AI services not configured">>,
                                    queries |-> NoProps]]
          /\ pc' = "responded"
          /\ log' = <<"responded">>
     ELSE /\ response' = NoResponse
          /\ pc' = "body"
          /\ log' = <<>>
  /\ UNCHANGED <<config, waiting, store, nextId>>

\* lines 76-93: the body is read
ReadBody ==
  /\ pc = "body"
  /\ IF ~request.json
     THEN /\ Fatal(milestones, BodyError, <<>>)
          /\ UNCHANGED <<queries, query>>
     ELSE IF ~request.query.given \/ request.query.text = ""
     THEN /\ Respond(400, [success |-> FALSE,
                           error |-> "Natural language query is required",
                           milestones |-> <<"[x] Validation failed - No query provided">>,
                           queries |-> queries], <<>>)
          /\ UNCHANGED <<milestones, queries, query>>
     ELSE /\ query' = request.query.text
          /\ queries' = Put(queries, "original", request.query.text)
          /\ milestones' = milestones \o
               <<"[ok] Milestone 1: Query received and validated",
                 "[i] Query: \"" \o request.query.text \o "\"">>
          /\ pc' = "received"
          /\ log' = Append(log, "received")
          /\ UNCHANGED response
  /\ UNCHANGED <<config, waiting, store, nextId, request, cleanedQuery, intent, sqlQuery,
                 validation, finalSQL, op, geminiReply, executed>>

\* the preprocessing entered again after the classification
PreprocessAgain ==
  /\ pc \in {"received", "classified"}
  /\ cleanedQuery' = CleanedOf[query]
  /\ queries' = Put(queries, "preprocessed", CleanedOf[query])
  /\ milestones' = milestones \o
       <<"[ok] Milestone 2: Query preprocessing completed",
         "[i] Preprocessed Query: \"" \o CleanedOf[query] \o "\"">>
  /\ pc' = "preprocessed"
  /\ log' = Append(log, "preprocessed")
  /\ UNCHANGED <<config, waiting, store, nextId, request, query, intent, sqlQuery,
                 validation, finalSQL, op, response, geminiReply, executed>>

\* lines 95-99
Preprocess ==
  /\ pc = "received"
  /\ cleanedQuery' = CleanedOf[query]
  /\ queries' = Put(queries, "preprocessed", CleanedOf[query])
  /\ milestones' = milestones \o
       <<"[ok] Milestone 2: Query preprocessing completed",
         "[i] Preprocessed Query: \"" \o CleanedOf[query] \o "\"">>
  /\ pc' = "preprocessed"
  /\ log' = Append(log, "preprocessed")
  /\ UNCHANGED <<config, waiting, store, nextId, request, query, intent, sqlQuery,
                 validation, finalSQL, op, response, geminiReply, executed>>

\* lines 101-105
Classify ==
  /\ pc = "preprocessed"
  /\ intent' = IntentOf[query]
  /\ queries' = Put(queries, "intent", IntentOf[query])
  /\ milestones' = milestones \o
       <<"[ok] Milestone 3: Intent classified as \"" \o IntentOf[query] \o "\"",
         "[i] Intent: \"" \o IntentOf[query] \o "\"">>
  /\ pc' = "classified"
  /\ log' = Append(log, "classified")
  /\ UNCHANGED <<config, waiting, store, nextId, request, query, cleanedQuery, sqlQuery,
                 validation, finalSQL, op, response, geminiReply, executed>>

\* POST calling provider A again after a call that failed
GenerateRetrying ==
  /\ pc = "classified"
  /\ \/ /\ log' = Append(log, "providerA")
        /\ UNCHANGED <<pc, response, milestones, queries, sqlQuery>>
     \/ \E content \in GroqTexts : \E generated \in {GeneratedOf[<<query, content>>]} :
          /\ sqlQuery' = generated
          /\ queries' = Put(queries, "generatedSQL", generated)
          /\ milestones' = milestones \o
               <<"[..] Milestone 4: Generating SQL with Groq AI...",
                 "[ok] Milestone 4: SQL generated successfully",
                 "[i] Generated SQL: \"" \o generated \o "\"">>
          /\ pc' = "generated"
          /\ log' = log \o <<"providerA", "generated">>
          /\ UNCHANGED response
  /\ UNCHANGED <<config, waiting, store, nextId, request, query, cleanedQuery, intent,
                 validation, finalSQL, op, geminiReply, executed>>

\* lines 107-112: provider A is called; it throws or answers with a text
Generate ==
  /\ pc = "classified"
  /\ \/ \E e \in ProviderErrors :
          /\ Fatal(Append(milestones, "[..] Milestone 4: Generating SQL with Groq AI..."),
                   e, <<"providerA">>)
          /\ UNCHANGED <<queries, sqlQuery>>
     \/ \E content \in GroqTexts : \E generated \in {GeneratedOf[<<query, content>>]} :
          /\ sqlQuery' = generated
          /\ queries' = Put(queries, "generatedSQL", generated)
          /\ milestones' = milestones \o
               <<"[..] Milestone 4: Generating SQL with Groq AI...",
                 "[ok] Milestone 4: SQL generated successfully",
                 "[i] Generated SQL: \"" \o generated \o "\"">>
          /\ pc' = "generated"
          /\ log' = log \o <<"providerA", "generated">>
          /\ UNCHANGED response
  /\ UNCHANGED <<config, waiting, store, nextId, request, query, cleanedQuery, intent,
                 validation, finalSQL, op, geminiReply, executed>>

\* lines 114-135: provider B is called; the verdict, and the statement to
\* go on with
Validate ==
  /\ pc = "generated"
  /\ \E r \in DOMAIN GeminiReplies :
       \E verdict \in {VerdictOf[<<query, sqlQuery, r>>]} :
       \E final \in {finalSQLOf(query, sqlQuery, verdict)} :
          /\ geminiReply' = r
          /\ validation' = verdict
          /\ finalSQL' = final
          /\ queries' = Put(queries, "validatedSQL", final)
          /\ milestones' = milestones
               \o <<"[..] Milestone 5: Validating SQL with Gemini...">>
               \o (IF needsLocalFix(verdict)
                   THEN <<"[fix] Applied automatic SQL fixes">> ELSE <<>>)
               \o <<"[ok] Milestone 5: SQL validation "
                      \o (IF TruthyFlag(verdict, "valid") THEN "passed" ELSE "failed"),
                    "[i] Validated SQL: \"" \o final \o "\"">>
  /\ pc' = "validated"
  /\ log' = log \o <<"providerB", "validated">>
  /\ UNCHANGED <<config, waiting, store, nextId, request, query, cleanedQuery, intent,
                 sqlQuery, op, response, executed>>

\* validation.reason in a template literal
reasonText(verdict) ==
  IF Has(verdict, "reason") THEN verdict["reason"] ELSE "undefined"

\* lines 138-150
Reject ==
  /\ pc = "validated"
  /\ rejects(sqlQuery, validation, finalSQL)
  /\ Respond(400, [success |-> FALSE,
                   error |-> "SQL validation failed: " \o reasonText(validation)
                               \o ". Unable to auto-correct.",
                   sql |-> sqlQuery, suggestion |-> finalSQL,
                   milestones |-> milestones, queries |-> queries], <<>>)
  /\ UNCHANGED <<config, waiting, store, nextId, request, milestones, queries, locals,
                 geminiReply, executed>>

\* lines 153 and 513-566: the executor is entered and runs up to the first
\* call of the row store
Execute ==
  /\ pc = "validated"
  /\ ~rejects(sqlQuery, validation, finalSQL)
  /\ executed' = Append(executed, finalSQL)
  /\ \E plan \in {PlanOf[finalSQL]} :
     \E ms \in {Append(milestones, "[..] Milestone 6: Parsing and executing SQL query...")
                   \o plan.ms} :
        IF plan.threw
        THEN /\ Fatal(ms, plan.error, <<"executor">>)
             /\ UNCHANGED op
        ELSE /\ milestones' = ms
             /\ op' = plan.op
             /\ pc' = "store"
             /\ log' = Append(log, "executor")
             /\ UNCHANGED response
  /\ UNCHANGED <<config, waiting, store, nextId, request, queries, query, cleanedQuery,
                 intent, sqlQuery, validation, finalSQL, geminiReply>>

\* the error of a row-store call as the handler and then the executor
\* rethrow it
StoreFails(what, errors, done) ==
  /\ \E e \in errors :
       Fatal(milestones, "Database execution error: " \o what \o e, done)
  /\ UNCHANGED <<store, nextId, op>>

\* the insert refused for the key the sequence gave it; the sequence has
\* moved on all the same
KeyTaken ==
  /\ \E row \in store : row.id = nextId
  /\ nextId <= MaxTodos
  /\ Fatal(milestones, "Database execution error: Insert failed: " \o DuplicateKey,
           <<"store.insert">>)
  /\ nextId' = nextId + 1
  /\ UNCHANGED <<store, op>>

\* what the handlers return
Listing(rows, message) ==
  [todos |-> orderByCreatedAt(rows, FALSE), count |-> Cardinality(rows),
   message |-> message]

\* the insert handler answering with the list as of its own write, without
\* the second call of the store
StoreInsertReturning ==
  /\ pc = "store"
  /\ op.kind = "insert"
  /\ \/ StoreFails("Insert failed: ", StoreErrors, <<"store.insert">>)
     \/ KeyTaken
     \/ /\ nextId <= MaxTodos
        /\ \A row \in store : row.id # nextId
        /\ store' = store \cup {[id |-> nextId, title |-> op.title,
                                 completed |-> op.completed, created_at |-> nextId]}
        /\ nextId' = nextId + 1
        /\ Succeed(Append(milestones,
                     "[ok] Successfully created todo with ID: " \o NumText(nextId)),
                   Listing(store', "Operation completed successfully"),
                   <<"store.insert">>)
        /\ UNCHANGED op
  /\ UNCHANGED <<config, waiting, request, queries, query, cleanedQuery, intent,
                 sqlQuery, validation, finalSQL, geminiReply, executed>>

\* lines 586-600
StoreInsert ==
  /\ pc = "store"
  /\ op.kind = "insert"
  /\ \/ StoreFails("Insert failed: ", StoreErrors, <<"store.insert">>)
     \/ KeyTaken
     \/ /\ nextId <= MaxTodos
        /\ \A row \in store : row.id # nextId
        /\ store' = store \cup {[id |-> nextId, title |-> op.title,
                                 completed |-> op.completed, created_at |-> nextId]}
        /\ nextId' = nextId + 1
        /\ milestones' = Append(milestones,
             "[ok] Successfully created todo with ID: " \o NumText(nextId))
        /\ op' = [kind |-> "list"]
        /\ log' = Append(log, "store.insert")
        /\ UNCHANGED <<pc, response>>
  /\ UNCHANGED <<config, waiting, request, queries, query, cleanedQuery, intent, sqlQuery,
                 validation, finalSQL, geminiReply, executed>>

\* the select handler removing from the store the records it returns
StoreSelectRemoving ==
  /\ pc = "store"
  /\ op.kind = "select"
  /\ \/ /\ StoreFails("Select failed: ", StoreErrors, <<"store.select">>)
     \/ LET found == {row \in store : Matches(row, op.filter)}
            n     == NumText(Cardinality(found))
        IN /\ Succeed(Append(milestones, "[list] Found " \o n \o " matching todos"),
                      Listing(found, "Found " \o n \o " matching todos"),
                      <<"store.select">>)
           /\ store' = store \ found
           /\ UNCHANGED <<nextId, op>>
  /\ UNCHANGED <<config, waiting, request, queries, query, cleanedQuery, intent, sqlQuery,
                 validation, finalSQL, geminiReply, executed>>

\* lines 644-659
StoreSelect ==
  /\ pc = "store"
  /\ op.kind = "select"
  /\ \/ StoreFails("Select failed: ", StoreErrors, <<"store.select">>)
     \/ LET found == {row \in store : Matches(row, op.filter)}
            n     == NumText(Cardinality(found))
        IN /\ Succeed(Append(milestones, "[list] Found " \o n \o " matching todos"),
                      Listing(found, "Found " \o n \o " matching todos"),
                      <<"store.select">>)
           /\ UNCHANGED <<store, nextId, op>>
  /\ UNCHANGED <<config, waiting, request, queries, query, cleanedQuery, intent, sqlQuery,
                 validation, finalSQL, geminiReply, executed>>

\* getAllTodos pushing its milestone on one array kept for all invocations
StoreListSharedTrace ==
  /\ pc = "store"
  /\ op.kind = "list"
  /\ \/ /\ StoreFails("Failed to fetch todos: ", StoreErrors, <<"store.list">>)
        /\ UNCHANGED waiting
     \/ /\ Succeed(Append(milestones,
                     "[list] Returning " \o NumText(Cardinality(store)) \o " todos"),
                   Listing(store, "Operation completed successfully"),
                   <<"store.list">>)
        /\ waiting' = [waiting EXCEPT !.milestones = Append(@,
                          "[list] Returning " \o NumText(Cardinality(store)) \o " todos")]
        /\ UNCHANGED <<store, nextId, op>>
  /\ UNCHANGED <<config, request, queries, query, cleanedQuery, intent, sqlQuery,
                 validation, finalSQL, geminiReply, executed>>

\* lines 827-848: getAllTodos, and the return of the handler that called it
StoreList ==
  /\ pc = "store"
  /\ op.kind = "list"
  /\ \/ StoreFails("Failed to fetch todos: ", StoreErrors, <<"store.list">>)
     \/ /\ Succeed(Append(milestones,
                     "[list] Returning " \o NumText(Cardinality(store)) \o " todos"),
                   Listing(store, "Operation completed successfully"),
                   <<"store.list">>)
        /\ UNCHANGED <<store, nextId, op>>
  /\ UNCHANGED <<config, waiting, request, queries, query, cleanedQuery, intent, sqlQuery,
                 validation, finalSQL, geminiReply, executed>>

\* lines 738-749: the oldest row is looked up; no row, or an error, leaves
\* the update without a filter
StoreLookup ==
  /\ pc = "store"
  /\ op.kind = "lookup"
  /\ \/ /\ store # {}
        /\ LET firstTodo == orderByCreatedAt(store, TRUE)[1]
           IN /\ op' = [op EXCEPT !.kind = "update",
                                  !.filter = EqId(NumText(firstTodo.id))]
              /\ milestones' = Append(milestones,
                   "[i] Updating first todo (ID: " \o NumText(firstTodo.id) \o ")")
     \/ /\ op' = [op EXCEPT !.kind = "update"]
        /\ UNCHANGED milestones
  /\ log' = Append(log, "store.lookup")
  /\ UNCHANGED <<config, waiting, store, nextId, pc, request, queries, query, cleanedQuery,
                 intent, sqlQuery, validation, finalSQL, response, geminiReply,
                 executed>>

\* lines 754-762
StoreUpdate ==
  /\ pc = "store"
  /\ op.kind = "update"
  /\ LET wellFormed == WellTyped(op.filter) /\ Assignable(op.column, op.value)
         hit        == {row \in store : Matches(row, op.filter)}
         updated    == {IF row \in hit THEN Assigned(row, op.column, op.value)
                        ELSE row : row \in store}
         unique     == wellFormed => Cardinality(updated) = Cardinality(store)
                                       /\ UniqueIds(updated)
     IN \/ StoreFails("Update failed: ",
                      IF unique THEN ErrorsOf(wellFormed) ELSE {DuplicateKey},
                      <<"store.update">>)
        \/ /\ wellFormed
           /\ unique
           /\ store' = updated
           /\ milestones' = Append(milestones,
                "[ok] Successfully updated " \o NumText(Cardinality(hit)) \o " todo(s)")
           /\ op' = [kind |-> "list"]
           /\ log' = Append(log, "store.update")
           /\ UNCHANGED <<nextId, pc, response>>
  /\ UNCHANGED <<config, waiting, request, queries, query, cleanedQuery, intent, sqlQuery,
                 validation, finalSQL, geminiReply, executed>>

\* lines 815-824
StoreDelete ==
  /\ pc = "store"
  /\ op.kind = "delete"
  /\ \/ StoreFails("Delete failed: ", ErrorsOf(WellTyped(op.filter)),
                   <<"store.delete">>)
     \/ /\ WellTyped(op.filter)
        /\ store' = {row \in store : ~Matches(row, op.filter)}
        /\ milestones' = Append(milestones, "[ok] Successfully deleted todo(s)")
        /\ op' = [kind |-> "list"]
        /\ log' = Append(log, "store.delete")
        /\ UNCHANGED <<nextId, pc, response>>
  /\ UNCHANGED <<config, waiting, request, queries, query, cleanedQuery, intent, sqlQuery,
                 validation, finalSQL, geminiReply, executed>>

Next ==
  \/ \E body \in Bodies : Receive(body)
  \/ ReadBody
  \/ Preprocess
  \/ Classify
  \/ Generate
  \/ Validate
  \/ Reject
  \/ Execute
  \/ StoreInsert
  \/ StoreSelect
  \/ StoreList
  \/ StoreLookup
  \/ StoreUpdate
  \/ StoreDelete

Spec == Init /\ [][Next]_vars

(***************************************************************************)
(* Properties                                                              *)
(***************************************************************************)
TypeOK ==
  /\ pc \in {"idle", "body", "received", "preprocessed", "classified",
             "generated", "validated", "store", "responded"}
  /\ nextId \in 1..(MaxTodos + 1)
  /\ geminiReply \in 0..Len(GeminiReplies)

In(seq, e) == \E i \in DOMAIN seq : seq[i] = e

StoreCalls ==
  {"store.insert", "store.select", "store.list", "store.lookup", "store.update",
   "store.delete"}

CalledStore(events) == \E i \in DOMAIN events : events[i] \in StoreCalls

Invalid(verdict) == ~(Has(verdict, "valid") /\ verdict["valid"] = TRUE)

Suggests(verdict) == Has(verdict, "suggestion") /\ verdict["suggestion"] # ""

\* C1: once the validator has returned, the request is rejected with status
\* 400 and the executor is not entered exactly when the verdict is invalid,
\* carries no suggestion and the Repairer leaves the generated statement as
\* it is; in every other case the executor is entered.
C1_RejectedExactlyWhenUnrepaired ==
  [][pc = "validated" =>
       IF /\ Invalid(validation)
          /\ ~Suggests(validation)
          /\ RepairedOf[<<query, sqlQuery>>] = sqlQuery
       THEN response'.status = 400 /\ executed' = <<>> /\ ~In(log', "executor")
       ELSE Len(executed') = 1 /\ In(log', "executor")]_vars

C1_Witness ==
  /\ pc = "responded"
  /\ response.status = 400
  /\ Has(queries, "validatedSQL")
  /\ Invalid(validation)
  /\ executed = <<>>

\* the statements the executor hands to the UPDATE or the DELETE handler
DispatchOf ==
  Table([sql \in FinalSQLs |-> firstWord(extractCleanSQL(sql))])

\* the statements with a WHERE in them
HasWhere ==
  Table([sql \in FinalSQLs |-> includes(toUpperCase(sql), "WHERE")])

\* C2: a statement without a WHERE clause that the executor hands to the
\* UPDATE or to the DELETE handler ends the request in a fatal error, and no
\* call of the row store, read or write, is made for it.
C2_NoWhereNoStoreCall ==
  (/\ Len(executed) = 1
   /\ DispatchOf[finalSQL] \in {"update", "delete"}
   /\ ~HasWhere[finalSQL])
    => /\ pc = "responded"
       /\ response.status = 500
       /\ response.body.success = FALSE
       /\ ~CalledStore(log)
       /\ op = NoOp

C2_Witness ==
  /\ executed = <<"DELETE FROM todos">>
  /\ pc = "responded"
  /\ response.status = 500
  /\ store # {}

\* C3: whenever the executor is entered in a request whose verdict was
\* invalid, the statement it is given differs from the statement the
\* generator produced.
C3_InvalidNeverExecutedUnchanged ==
  (Len(executed) = 1 /\ Invalid(validation)) => executed[1] # sqlQuery

\* C4: the statement given to the executor is the suggestion of the verdict
\* if it carries one, else the generated statement, repaired locally when the
\* verdict is invalid; the same statement is recorded as validatedSQL and
\* returned as sql by a success response.
C4_ExecutedStatement ==
  Len(executed) = 1 =>
    /\ executed[1] = IF Suggests(validation) THEN validation["suggestion"]
                     ELSE IF Invalid(validation)
                     THEN RepairedOf[<<query, sqlQuery>>]
                     ELSE sqlQuery
    /\ queries["validatedSQL"] = executed[1]
    /\ response.status = 200 => response.body.sql = executed[1]

C4_Witness ==
  /\ response.status = 200
  /\ Suggests(validation)
  /\ executed = <<validation["suggestion"]>>
  /\ executed[1] # sqlQuery

\* the statements the generator produces in this model
GeneratedSQLs == {GeneratedOf[k] : k \in DOMAIN GeneratedOf}

ContainsDangerous ==
  Table([sql \in GeneratedSQLs |->
           \E keyword \in dangerous : includes(toLowerCase(sql), keyword)])

UnquotedValuesIn ==
  Table([sql \in GeneratedSQLs |-> Exec(unquotedValues, sql, TRUE).found])

FallbackOf ==
  Table([k \in {<<j[1], j[2]>> : j \in VerdictKeys} |->
           fallbackValidation(k[1], k[2])])

DangerousVerdict ==
  [valid |-> FALSE, reason |-> "Query contains potentially dangerous operations"]

GeminiThrew == geminiReply > 0 /\ GeminiReplies[geminiReply].threw

ReplyFailed(r) == GeminiReplies[r].threw \/ ~DecodedOf[r].ok

GeminiFailed == geminiReply > 0 /\ ReplyFailed(geminiReply)

\* C5 as stated: when the call of provider B throws, every generated
\* statement with a keyword of the dangerous list is flagged invalid with the
\* dangerous-operation reason and no suggestion, and the request ends with
\* status 400 without a call of the row store.
C5_DangerousEnds400 ==
  (GeminiThrew /\ ContainsDangerous[sqlQuery]) =>
    /\ validation = DangerousVerdict
    /\ executed = <<>>
    /\ ~CalledStore(log)
    /\ pc \in {"validated", "responded"}
    /\ pc = "responded" => response.status = 400

\* C5 amended: when the call of provider B throws, every generated statement
\* with a keyword of the dangerous list and without an unquoted-literal
\* VALUES clause is flagged invalid with the dangerous-operation reason and no
\* suggestion; if moreover the Repairer leaves it as it is, the request ends
\* with status 400 without a call of the row store.
C5_DangerousUnrepairedEnds400 ==
  (GeminiThrew /\ ContainsDangerous[sqlQuery] /\ ~UnquotedValuesIn[sqlQuery]) =>
    /\ validation = DangerousVerdict
    /\ RepairedOf[<<query, sqlQuery>>] = sqlQuery =>
         /\ executed = <<>>
         /\ ~CalledStore(log)
         /\ pc \in {"validated", "responded"}
         /\ pc = "responded" => response.status = 400

C5_Witness ==
  /\ GeminiThrew
  /\ sqlQuery = "DROP TABLE todos"
  /\ validation = DangerousVerdict
  /\ pc = "responded"
  /\ response.status = 400

\* C6: when the call of provider B throws, or its reply holds no JSON block,
\* or the block cannot be decoded, the validator returns the verdict of the
\* local heuristics and the request goes on to the decision that follows the
\* validation; it does not end in a 500 there.
C6_ProviderBFailureNotFatal ==
  [][(pc = "generated" /\ geminiReply' > 0 /\ ReplyFailed(geminiReply')) =>
       /\ pc' = "validated"
       /\ response' = response
       /\ validation' = FallbackOf[<<query, sqlQuery>>]]_vars

C6_Witness ==
  /\ GeminiFailed
  /\ ~GeminiThrew
  /\ validation = [valid |-> TRUE]
  /\ response.status = 200

\* what C7 says the local fallback flags
ClaimedInvalid ==
  Table([sql \in GeneratedSQLs |->
    LET low == toLowerCase(sql)
    IN \/ includes(low, "drop") \/ includes(low, "alter") \/ includes(low, "truncate")
       \/ /\ includes(low, "delete from todos") \/ includes(low, "update todos set")
          /\ ~includes(low, "where")
       \/ UnquotedValuesIn[sql]
       \/ trim(sql) = ""])

\* C7: under the local fallback a statement is flagged invalid exactly when it
\* contains drop, alter or truncate, or is a delete-from-todos or
\* update-todos-set without WHERE, or has an unquoted-literal VALUES clause
\* (then with the repaired statement as suggestion); any other non-empty
\* statement is judged valid.
C7_FallbackFlagsOnlyUnqualified ==
  GeminiFailed =>
    /\ Invalid(validation) <=> ClaimedInvalid[sqlQuery]
    /\ UnquotedValuesIn[sqlQuery] =>
         /\ Has(validation, "suggestion")
         /\ validation["suggestion"] = RepairedOf[<<query, sqlQuery>>]

FailureMilestones(ms) ==
  {i \in DOMAIN ms : Len(ms[i]) >= 3 /\ SubSeq(ms[i], 1, 3) = "[x]"}

IsPrefix(a, b) == Len(a) <= Len(b) /\ SubSeq(b, 1, Len(a)) = a

\* C8: when a stage raises a fatal error, the response has status 500 and
\* success=false, its trace is the trace accumulated up to the error followed
\* by exactly one failure milestone with the error message, and nothing of the
\* request runs after it.
C8_FatalStopsPipeline ==
  [][/\ (pc \notin {"idle", "responded"} /\ response'.status = 500) =>
          /\ pc' = "responded"
          /\ response'.body.success = FALSE
          /\ response'.body.milestones = milestones'
          /\ IsPrefix(milestones, milestones')
          /\ Last(milestones') = "[x] Error: " \o response'.body.error
          /\ FailureMilestones(milestones') = {Len(milestones')}
          /\ Last(log') = "responded"
          /\ ~In(log', "executed")
     /\ pc = "responded" =>
          /\ pc' \in {"body", "responded"}
          /\ log' \in {<<>>, <<"responded">>}
          /\ executed' = <<>>
          /\ store' = store]_vars

C8_Witness ==
  /\ pc = "responded"
  /\ response.status = 500
  /\ CalledStore(log)
  /\ Len(milestones) > 10
  /\ store # {}

\* the events of log in the order of the pipeline, the calls of the row store
\* between the entry into the executor and its return
Rank(e) ==
  CASE e = "received"     -> 1
    [] e = "preprocessed" -> 2
    [] e = "classified"   -> 3
    [] e = "providerA"    -> 4
    [] e = "generated"    -> 5
    [] e = "providerB"    -> 6
    [] e = "validated"    -> 7
    [] e = "executor"     -> 8
    [] e \in StoreCalls   -> 9
    [] e = "executed"     -> 10
    [] e = "responded"    -> 11

Before(events, a, b) ==
  \E i, j \in DOMAIN events : i < j /\ events[i] = a /\ events[j] = b

\* C9: within a request the stages run in the order received, preprocessed,
\* intent-classified, sql-generated, sql-validated, sql-executed, responded,
\* each at most once and none after a later one; provider B is not called
\* before provider A has returned, nor the executor entered before the
\* validator has returned.
C9_StagesInOrder ==
  /\ \A i, j \in DOMAIN log :
       i < j => \/ Rank(log[i]) < Rank(log[j])
                \/ log[i] \in StoreCalls /\ log[j] \in StoreCalls
  /\ In(log, "providerB") => Before(log, "generated", "providerB")
  /\ In(log, "executor") => Before(log, "validated", "executor")
  /\ Len(executed) <= 1

C9_Witness ==
  /\ pc = "responded"
  /\ response.status = 200
  /\ log = <<"received", "preprocessed", "classified", "providerA", "generated",
             "providerB", "validated", "executor", "store.insert", "store.list",
             "executed", "responded">>

Configured ==
  config.SUPABASE_URL /\ config.SUPABASE_SERVICE_ROLE_KEY /\ config.GROQ_API_KEY

NoQueryIn(body) == ~body.query.given \/ body.query.text = ""

NothingDone ==
  /\ log = <<"responded">>
  /\ milestones = <<>>
  /\ queries = NoProps
  /\ cleanedQuery = ""
  /\ intent = ""
  /\ sqlQuery = ""
  /\ geminiReply = 0
  /\ executed = <<>>
  /\ Len(response.body.milestones) = 1
  /\ FailureMilestones(response.body.milestones) = {1}
  /\ response.body.success = FALSE

EndsWithFailure(ms) ==
  Len(ms) > 0 /\ startsWith(ms[Len(ms)], "[x] Error: ")

\* C11: the status of a response is 200 exactly when its body has success =
\* true, which is exactly when the executor ran to its end without an error;
\* a 400 answers only a missing or empty query or a statement that was
\* flagged invalid and could not be repaired, a 500 only a missing setting or
\* an exception.
C11_StatusMatchesOutcome ==
  pc = "responded" =>
    /\ response.status \in {200, 400, 500}
    /\ response.status = 200 <=> response.body.success
    /\ response.body.success <=> (In(log, "executor") /\ In(log, "executed"))
    /\ response.status = 400 =>
         \/ Configured /\ request.json /\ NoQueryIn(request) /\ log = <<"responded">>
         \/ /\ In(log, "validated") /\ ~In(log, "executor")
            /\ Invalid(validation) /\ ~Suggests(validation) /\ finalSQL = sqlQuery
    /\ response.status = 500 =>
         \/ ~Configured
         \/ EndsWithFailure(response.body.milestones)

C11_Witness ==
  /\ pc = "responded"
  /\ response.status = 200
  /\ response.body.success
  /\ In(log, "executed")

SubqueryUpdate ==
  "UPDATE todos SET completed = true WHERE id = (SELECT id FROM todos ORDER BY created_at LIMIT 1)"

\* C12: an UPDATE whose WHERE clause is the id subquery, run against a store
\* that is not empty, has its subquery resolved by a lookup of the oldest
\* record, updates that one record by its id, and the request ends with
\* success = true.
C12_SubqueryUpdatesOldest ==
  (executed = <<SubqueryUpdate>> /\ store # {}) =>
    /\ (pc = "store" /\ ~CalledStore(log)) => op.kind = "lookup"
    /\ In(log, "store.update") => In(log, "store.lookup")
    /\ (pc = "responded" /\ In(log, "store.update") /\ ~In(log, "store.list")) =>
         response.body.error = "Database execution error: Update failed: "
                                 \o CHOOSE e \in StoreErrors : TRUE

\* the filter C13 says a SELECT statement is answered with: none without a
\* WHERE clause; else the first of the three shapes found after WHERE
ClaimedSelectFilter(sql) ==
  Val(indexOf(toUpperCase(sql), "WHERE"), LAMBDA at :
    IF at = 0 THEN NoFilter
    ELSE Val(From(sql, at + 5), LAMBDA clause :
      Val(<<Exec(titleLike, clause, TRUE), Exec(titleEquals, clause, TRUE),
            Exec(completedEquals, clause, TRUE)>>, LAMBDA m :
        IF m[1].found THEN ILikeTitle(Group(m[1], clause, 6))
        ELSE IF m[2].found THEN EqTitle(Group(m[2], clause, 6))
        ELSE IF m[3].found
        THEN EqCompleted(toLowerCase(Group(m[3], clause, 5)) = "true")
        ELSE NoFilter)))

ClaimedSelectFilterOf ==
  Table([sql \in {f \in FinalSQLs : firstWord(f) = "select"} |-> ClaimedSelectFilter(sql)])

\* C13: the items a SELECT returns are the records of the store that satisfy
\* the one filter chosen from its WHERE clause (title LIKE, then title =,
\* then completed =; none when no shape matches or there is no WHERE clause),
\* newest first, and no error is raised for a WHERE clause of another shape.
C13_SelectReturnsFiltered ==
  (pc = "responded" /\ Len(executed) = 1 /\ executed[1] \in DOMAIN ClaimedSelectFilterOf
     /\ (In(log, "store.select") \/ In(log, "store.list"))
     /\ response.status = 200) =>
    response.body.data.todos =
      orderByCreatedAt({row \in store : Matches(row, ClaimedSelectFilterOf[executed[1]])},
                       FALSE)

(***************************************************************************)
(* The functions of the pipeline on their own: each of the specifications  *)
(* below starts with an argument drawn from a bounded set in the variables *)
(* the pipeline keeps it in, and its one action applies the function.      *)
(***************************************************************************)
AllSet ==
  [SUPABASE_URL |-> TRUE, SUPABASE_SERVICE_ROLE_KEY |-> TRUE, GROQ_API_KEY |-> TRUE]

\* no request at hand: everything but pc and the texts of the pipeline
AtRest ==
  /\ config = AllSet
  /\ store = {}
  /\ nextId = 1
  /\ request = [json |-> TRUE, query |-> NoQuery]
  /\ milestones = <<>>
  /\ queries = NoProps
  /\ validation = NoProps
  /\ op = NoOp
  /\ response = NoResponse
  /\ log = <<>>
  /\ geminiReply = 0
  /\ executed = <<>>
  /\ waiting = NotStarted

rest ==
  <<config, store, nextId, request, milestones, queries, validation, op,
    response, log, geminiReply, executed, waiting>>

(***************************************************************************)
(* fixSQLSyntax on INSERT statements with an unquoted first value          *)
(***************************************************************************)
InsertHead == "INSERT INTO todos (title, completed) "

\* the statements: InsertHead, the VALUES keyword, the two arguments with
\* optional padding, and what follows the closing parenthesis
InsertCases ==
  [keyword : {"VALUES", "values"}, pad : {"", " "},
   first : {"buy milk", "milk", "x"}, second : {"true", "false", "null", "17"},
   tail : {"", ";"}]

Statement(c) ==
  InsertHead \o c.keyword \o " (" \o c.pad \o c.first \o "," \o c.pad
    \o c.second \o c.pad \o ")" \o c.tail

\* the texts the description is derived from
OriginalTexts ==
  {"add a task to buy milk", "create todo for me to call o'neil",
   "new item order pizza,", "add a task to x", "remind me to pay",
   "buy milk"}

InitRepairer ==
  /\ AtRest
  /\ pc = "fixSQLSyntax"
  /\ query \in OriginalTexts
  /\ sqlQuery \in {Statement(c) : c \in InsertCases}
  /\ finalSQL = ""
  /\ cleanedQuery = ""
  /\ intent = ""

Repair ==
  /\ pc = "fixSQLSyntax"
  /\ finalSQL' = fixSQLSyntax(sqlQuery, query)
  /\ pc' = "returned"
  /\ UNCHANGED <<rest, query, sqlQuery, cleanedQuery, intent>>

NextRepairer == Repair

SpecRepairer == InitRepairer /\ [][NextRepairer]_vars

\* C14: of an INSERT INTO todos statement whose first VALUES argument is
\* unquoted and whose second is true, false, null or a number, the Repairer
\* returns the statement with the VALUES clause replaced by ('<D>', <second
\* argument>), D the description derived from the original text with its
\* single quotes doubled, and the text around the clause unchanged.
C14_InsertValuesRequoted ==
  pc = "returned" =>
    \A c \in {k \in InsertCases : Statement(k) = sqlQuery} :
      finalSQL = InsertHead \o "VALUES ('"
                   \o escapeQuotes(extractTaskDescription(query))
                   \o "', " \o c.second \o ")" \o c.tail

(***************************************************************************)
(* extractCleanSQL on the replies of provider A                            *)
(***************************************************************************)
MaxTokens == 3

\* what a reply is made of: the four keywords in several letter cases, white
\* space, the semicolon, the markdown fences and other text
ReplyTokens ==
  {"SELECT", "insert", "Update", "DELETE", " ", ";", "\n", Fence,
   Fence \o "sql", "x"}

RECURSIVE TextsOf(_, _)
TextsOf(tokens, n) ==
  IF n = 0 THEN {""}
  ELSE Val(TextsOf(tokens, n - 1), LAMBDA shorter :
         shorter \cup {t \o token : t \in shorter, token \in tokens})

InitExtractor ==
  /\ AtRest
  /\ pc = "extractCleanSQL"
  /\ sqlQuery \in TextsOf(ReplyTokens, MaxTokens)
  /\ finalSQL = ""
  /\ query = ""
  /\ cleanedQuery = ""
  /\ intent = ""

Extract ==
  /\ pc = "extractCleanSQL"
  /\ finalSQL' = extractCleanSQL(sqlQuery)
  /\ pc' = "returned"
  /\ UNCHANGED <<rest, query, sqlQuery, cleanedQuery, intent>>

NextExtractor == Extract

SpecExtractor == InitExtractor /\ [][NextExtractor]_vars

ContainsSqlKeyword(text) ==
  \E k \in 1..Len(sqlKeywords) : includes(toUpperCase(text), sqlKeywords[k])

\* C15: the Extractor returns a text for every reply, and a non-empty one
\* for every non-empty reply that holds SELECT, INSERT, UPDATE or DELETE
\* anywhere, in any letter case.
C15_ExtractorNonEmpty ==
  pc = "returned" =>
    /\ finalSQL \in STRING
    /\ (sqlQuery # "" /\ ContainsSqlKeyword(sqlQuery)) => finalSQL # ""

\* a fenced reply with the keyword after the fence has been extracted
C15_Witness ==
  /\ pc = "returned"
  /\ sqlQuery = Fence \o "sql" \o "\n" \o "SELECT"
  /\ ContainsSqlKeyword(sqlQuery)
  /\ finalSQL = "SELECT"

(***************************************************************************)
(* preprocessQuery on the texts of a request                               *)
(***************************************************************************)
MaxChars == 4

\* a letter in each case, white space and punctuation
QueryChars == {"a", "B", " ", "?"}

InitPreprocessor ==
  /\ AtRest
  /\ pc = "preprocessQuery"
  /\ query \in TextsOf(QueryChars, MaxChars)
  /\ cleanedQuery = ""
  /\ intent = ""
  /\ sqlQuery = ""
  /\ finalSQL = ""

PreprocessText ==
  /\ pc = "preprocessQuery"
  /\ cleanedQuery' = preprocessQuery(query)
  /\ pc' = "returned"
  /\ UNCHANGED <<rest, query, intent, sqlQuery, finalSQL>>

NextPreprocessor == PreprocessText

SpecPreprocessor == InitPreprocessor /\ [][NextPreprocessor]_vars

\* C16: preprocessing a preprocessed text changes nothing:
\* preprocess(preprocess(x)) = preprocess(x) for every text x.
C16_PreprocessIdempotent ==
  pc = "returned" => preprocessQuery(cleanedQuery) = cleanedQuery

(***************************************************************************)
(* classifyIntent on cleaned texts                                         *)
(***************************************************************************)
MaxWords == 3

\* cues of every rule of the classifier and a word that is none
QueryWords ==
  {"show", "mark", "set", "done", "complete", "finish", "new", "delete",
   "edit", "find", "task"}

RECURSIVE PhrasesOf(_, _)
PhrasesOf(words, n) ==
  IF n = 1 THEN words
  ELSE Val(PhrasesOf(words, n - 1), LAMBDA shorter :
         shorter \cup {p \o " " \o w : p \in shorter, w \in words})

InitClassifier ==
  /\ AtRest
  /\ pc = "classifyIntent"
  /\ cleanedQuery \in PhrasesOf(QueryWords, MaxWords) \cup {"mark task as done"}
  /\ intent = ""
  /\ query = ""
  /\ sqlQuery = ""
  /\ finalSQL = ""

ClassifyText ==
  /\ pc = "classifyIntent"
  /\ intent' = classifyIntent(cleanedQuery)
  /\ pc' = "returned"
  /\ UNCHANGED <<rest, query, cleanedQuery, sqlQuery, finalSQL>>

NextClassifier == ClassifyText

SpecClassifier == InitClassifier /\ [][NextClassifier]_vars

\* the first matching rule in the order C17 gives
ClaimedIntent(text) ==
  IF \E cue \in {"show", "list", "display", "get"} : includes(text, cue)
  THEN "READ"
  ELSE IF /\ (includes(text, "mark") \/ includes(text, "set"))
          /\ (includes(text, "done") \/ includes(text, "complete"))
  THEN "UPDATE"
  ELSE IF \E k \in addKeywords : includes(text, k) THEN "CREATE"
  ELSE IF \E k \in deleteKeywords : includes(text, k) THEN "DELETE"
  ELSE IF \E k \in updateKeywords : includes(text, k) THEN "UPDATE"
  ELSE "READ"

\* C17: the Classifier returns one of CREATE, READ, UPDATE, DELETE, the
\* result of the first matching rule in the order: read/display cue -> READ;
\* mark or set together with done or complete -> UPDATE; CREATE keyword ->
\* CREATE; DELETE keyword -> DELETE; UPDATE keyword -> UPDATE; else READ.
\* "mark task as done" gives UPDATE and unmatched text gives READ.
C17_FirstMatchingRule ==
  pc = "returned" =>
    /\ intent \in {"CREATE", "READ", "UPDATE", "DELETE"}
    /\ intent = ClaimedIntent(cleanedQuery)
    /\ (cleanedQuery = "mark task as done" => intent = "UPDATE")
    /\ (cleanedQuery = "task" => intent = "READ")

\* C18: the identifier and the created-at of every record are the values
\* the store gave it at creation: each record of the store after a step has
\* the identifier and created-at of a record that was there before the step,
\* or is the record this step inserted with the values of the store, whatever
\* column the SET clause of the executed statement names.
C18_IdAndCreatedAtImmutable ==
  [][\A new \in store' :
       \/ \E old \in store : old.id = new.id /\ old.created_at = new.created_at
       \/ /\ op.kind = "insert"
          /\ new.id = nextId /\ new.created_at = nextId
          /\ nextId' = nextId + 1]_vars

(***************************************************************************)
(* Two invocations of POST at a time.  The server runs one of them until   *)
(* it awaits (the body, a provider, the row store) and may then go on with *)
(* the other one; config, store and nextId belong to both, every other     *)
(* variable is a local variable of the invocation and goes with it.        *)
(***************************************************************************)
Running ==
  [pc |-> pc, request |-> request, milestones |-> milestones,
   queries |-> queries, query |-> query, cleanedQuery |-> cleanedQuery,
   intent |-> intent, sqlQuery |-> sqlQuery, validation |-> validation,
   finalSQL |-> finalSQL, op |-> op, response |-> response, log |-> log,
   geminiReply |-> geminiReply, executed |-> executed]

\* where an invocation is when it has not started, awaits or has answered
AwaitPoints == {"idle", "body", "classified", "generated", "store", "responded"}

Switch ==
  /\ pc \in AwaitPoints
  /\ waiting' = Running
  /\ pc' = waiting.pc
  /\ request' = waiting.request
  /\ milestones' = waiting.milestones
  /\ queries' = waiting.queries
  /\ query' = waiting.query
  /\ cleanedQuery' = waiting.cleanedQuery
  /\ intent' = waiting.intent
  /\ sqlQuery' = waiting.sqlQuery
  /\ validation' = waiting.validation
  /\ finalSQL' = waiting.finalSQL
  /\ op' = waiting.op
  /\ response' = waiting.response
  /\ log' = waiting.log
  /\ geminiReply' = waiting.geminiReply
  /\ executed' = waiting.executed
  /\ UNCHANGED <<config, store, nextId>>

\* the requests and the replies of the providers with two invocations
ConcurrentBody == [json |-> TRUE, query |-> QueryText("Add a task to buy milk!")]

ConcurrentTexts ==
  {"INSERT INTO todos (title, completed) VALUES ('buy milk', false);",
   "DELETE FROM todos WHERE title = 'buy milk'",
   "Here is the query:\n~~~sql\nSELECT * FROM todos WHERE completed = false;\n~~~",
   "UPDATE todos SET completed = true WHERE id IN (SELECT id FROM todos ORDER BY created_at LIMIT 1)"}

ConcurrentReplies == {3, 4}

InitConcurrent ==
  /\ Init
  /\ config = AllSet

NextConcurrent ==
  \/ Switch
  \/ pc = "idle" /\ Receive(ConcurrentBody)
  \/ ReadBody
  \/ Preprocess
  \/ Classify
  \/ /\ Generate
     /\ pc' = "generated" =>
          sqlQuery' \in {GeneratedOf[<<query, content>>] : content \in ConcurrentTexts}
  \/ Validate /\ geminiReply' \in ConcurrentReplies
  \/ Reject
  \/ Execute
  \/ StoreInsert
  \/ StoreSelect
  \/ StoreList
  \/ StoreLookup
  \/ StoreUpdate
  \/ StoreDelete

SpecConcurrent == InitConcurrent /\ [][NextConcurrent]_vars

Mutating(statement) == firstWord(statement) \in {"insert", "update", "delete"}

\* C19: with two requests at a time, the list a mutating handler returns is
\* the content of the store at the moment of its re-read, not of its own
\* write: the step that answers a request whose statement is an INSERT, an
\* UPDATE or a DELETE is the re-read, made after the write as a call of its
\* own, and the list is the store as that step finds it, whatever the other
\* request has committed in between.
C19_ListIsStoreAtReread ==
  [][(/\ waiting' = waiting
      /\ pc = "store" /\ pc' = "responded" /\ response'.status = 200
      /\ Mutating(finalSQL)) =>
       /\ op.kind = "list"
       /\ \E call \in {"store.insert", "store.update", "store.delete"} : In(log, call)
       /\ response'.body.data.todos = orderByCreatedAt(store, FALSE)]_vars

\* the answer to an INSERT that has inserted its record does not list it:
\* the other request deleted it between the write and the re-read
C19_Witness ==
  /\ pc = "responded"
  /\ response.status = 200
  /\ firstWord(finalSQL) = "insert"
  /\ In(log, "store.insert")
  /\ response.body.data.todos = <<>>
  /\ In(waiting.log, "store.delete")

Admitted == {"received", "preprocessed", "classified", "generated", "validated", "store"}

\* C20: the trace of a request only grows: every step of a request that has
\* passed the admission checks leaves the milestones it had as a prefix of
\* the ones it has afterwards, the trace of the response is the trace built
\* (so that every intermediate trace is a prefix of the returned one), and no
\* step of one request touches the trace of the other: a switch between the
\* two requests hands each its own trace back as it was.
C20_TraceOnlyGrows ==
  [][IF waiting' = waiting
     THEN pc \in Admitted =>
            /\ IsPrefix(milestones, milestones')
            /\ pc' = "responded" => response'.body.milestones = milestones'
     ELSE /\ waiting'.milestones = milestones
          /\ milestones' = waiting.milestones
          /\ waiting'.response = response
          /\ response' = waiting.response]_vars

\* both requests have been answered, one after an INSERT and one after a
\* DELETE that ran in between, each with a trace of its own
C20_Witness ==
  /\ pc = "responded" /\ waiting.pc = "responded"
  /\ response.status = 200 /\ waiting.response.status = 200
  /\ In(log, "store.insert") /\ In(waiting.log, "store.delete")
  /\ response.body.data.todos = <<>>
  /\ response.body.milestones = milestones
  /\ waiting.response.body.milestones = waiting.milestones
  /\ milestones # waiting.milestones

(***************************************************************************)
(* executeSQLQuery on UPDATE and DELETE statements, up to the call of the  *)
(* row store the handler issues                                            *)
(***************************************************************************)
\* WHERE clauses: of the shapes the handlers are written for (shape), and
\* others
WhereCases ==
  {[clause |-> "id = 1",                shape |-> "id"],
   [clause |-> "title = 'buy milk'",    shape |-> "title"],
   [clause |-> "title LIKE '%milk%'",   shape |-> "like"],
   [clause |-> "id IN (SELECT id FROM todos ORDER BY created_at LIMIT 1)",
                                        shape |-> "subquery"],
   [clause |-> "completed = false",     shape |-> "other"],
   [clause |-> "created_at < now()",    shape |-> "other"],
   [clause |-> "title LIKE 'milk%'",    shape |-> "other"],
   [clause |-> "title = \"buy milk\"",  shape |-> "other"],
   [clause |-> "paid = true",           shape |-> "other"]}

StatementHeads ==
  {"UPDATE todos SET completed = true", "UPDATE todos SET title = 'done'",
   "update todos set completed = false", "DELETE FROM todos", "delete from todos"}

WhereWords == {" WHERE ", " where "}

StatementTails == {"", ";"}

WhereStatements ==
  {head \o w \o c.clause \o tail :
     head \in StatementHeads, w \in WhereWords, c \in WhereCases,
     tail \in StatementTails}

InitExecutor ==
  /\ config = AllSet
  /\ store = {}
  /\ nextId = 1
  /\ request = [json |-> TRUE, query |-> NoQuery]
  /\ queries = NoProps
  /\ validation = NoProps
  /\ log = <<>>
  /\ geminiReply = 0
  /\ executed = <<>>
  /\ waiting = NotStarted
  /\ query = ""
  /\ cleanedQuery = ""
  /\ intent = ""
  /\ sqlQuery = ""
  /\ pc = "executeSQLQuery"
  /\ finalSQL \in WhereStatements
  /\ milestones = <<>>
  /\ op = NoOp
  /\ response = NoResponse

\* lines 513-566 and the handler called, up to its call of the row store or
\* its throw
Dispatch ==
  /\ pc = "executeSQLQuery"
  /\ \E plan \in {executeSQLQuery(finalSQL)} :
       /\ milestones' = plan.ms
       /\ op' = IF plan.threw THEN NoOp ELSE plan.op
       /\ response' = IF plan.threw
                      THEN [status |-> 500, body |-> [success |-> FALSE, error |-> plan.error]]
                      ELSE NoResponse
  /\ pc' = "returned"
  /\ UNCHANGED <<config, store, nextId, request, queries, validation, log,
                 geminiReply, executed, waiting, query, cleanedQuery, intent,
                 sqlQuery, finalSQL>>

NextExecutor == Dispatch

SpecExecutor == InitExecutor /\ [][NextExecutor]_vars

\* the shape of the WHERE clause of a statement of WhereStatements
ShapeOf(statement) ==
  (CHOOSE c \in WhereCases :
     \E head \in StatementHeads, w \in WhereWords, tail \in StatementTails :
       statement = head \o w \o c.clause \o tail).shape

IsUpdate(statement) == firstWord(statement) = "update"

Unrecognized(statement) ==
  \/ ShapeOf(statement) = "other"
  \/ ShapeOf(statement) = "subquery" /\ ~IsUpdate(statement)

\* C21: in the UPDATE and DELETE handlers a WHERE clause that is none of
\* id = <id>, title = '<exact>', title LIKE '%term%' (and, for UPDATE, the
\* ORDER BY + LIMIT subquery) ends in the unsupported-WHERE error, and no
\* mutation is sent to the row store.
C21_UnrecognizedWhereIsFatal ==
  (pc = "returned" /\ Unrecognized(finalSQL)) =>
    /\ op = NoOp
    /\ response.status = 500
    /\ includes(response.body.error, "Unsupported WHERE clause")

StoreMessages == StoreErrors \cup {TypeError, DuplicateKey}

\* C22: a call of the row store that returns an error ends the request in a
\* fatal error carrying the message of the store, and the request calls the
\* store no more: every step of a handler at the store either answers 500
\* with the store's message, or answers 200 after the read, or goes on to
\* the next call after a call that succeeded; the lookup of the oldest record
\* succeeded only when it gave the update the id of a record.
C22_StoreErrorIsFatal ==
  [][pc = "store" =>
       \/ /\ pc' = "responded"
          /\ response'.status = 500
          /\ \E m \in StoreMessages : includes(response'.body.error, m)
          /\ store' = store
       \/ /\ pc' = "responded"
          /\ response'.status = 200
          /\ op.kind \in {"list", "select"}
       \/ /\ pc' = "store"
          /\ op.kind \in {"insert", "update", "delete", "lookup"}
          /\ op.kind = "lookup" => op'.filter.by = "id"]_vars

\* C23: every update and every delete that a handler sends to the row store
\* carries a row filter on id or on title, whatever the store contains: an
\* operation on the whole table is never at the store.
C23_MutationIsFiltered ==
  (pc = "store" /\ op.kind \in {"update", "delete"}) =>
    op.filter.by \in {"id", "title", "ilike"}

\* lines 520-524: the type the dispatcher reads off each statement
DispatchedTypeOf ==
  Table([sql \in FinalSQLs |-> firstWord(extractCleanSQL(sql))])

\* C24: the row store is written only in the executor stage of a request
\* whose statement starts with insert, update or delete: every step that
\* changes a record is a step of a handler at the store with an insert, an
\* update or a delete of such a statement, so the admission checks, the
\* generation, the 400 rejection, the dispatcher's refusal and a SELECT
\* leave every record as it was.
C24_WrittenOnlyByExecutor ==
  [][store' # store =>
       /\ pc = "store"
       /\ op.kind \in {"insert", "update", "delete"}
       /\ executed # <<>>
       /\ executed[Len(executed)] = finalSQL
       /\ DispatchedTypeOf[finalSQL] = op.kind]_vars

\* a request rejected with 400 while the store holds a record written by an
\* earlier request
C24_Witness ==
  /\ pc = "responded"
  /\ response.status = 400
  /\ store # {}

\* the trace of the request records that its insert created record n, and
\* the store holds that record
CreatedByRequest(n) ==
  /\ "[ok] Successfully created todo with ID: " \o NumText(n) \in Range(milestones)
  /\ \E row \in store : row.id = n

\* C25: a request answered with success=false has not changed the row
\* store: when the response reports a failure, no record of the store was
\* created by the request that is answered.
C25_FailureLeavesStore ==
  (pc = "responded" /\ ~response.body.success) =>
    \A n \in 1..MaxTodos : ~CreatedByRequest(n)

(***************************************************************************)
(* fixSQLSyntax applied to its own result                                  *)
(***************************************************************************)
UpdateHead == "UPDATE todos SET title ="

Paddings == {"", " "}

Titles == {"buy milk", "milk"}

UpdateTails == {"", ";", " WHERE id = 1"}

\* INSERT statements whose first VALUES argument is single-quoted
QuotedInserts ==
  {InsertHead \o "VALUES (" \o pad \o "'" \o t \o "', " \o second \o ")" :
     pad \in Paddings, t \in Titles, second \in {"true", "false"}}

\* UPDATE statements whose SET title value is single-quoted
QuotedUpdates ==
  {UpdateHead \o pad \o "'" \o t \o "'" \o tail :
     pad \in Paddings, t \in Titles, tail \in UpdateTails}

\* statements with the unquoted-literal defect
UnquotedStatements ==
  {InsertHead \o "VALUES (" \o pad \o t \o ", " \o second \o ")" :
     pad \in Paddings, t \in Titles, second \in {"true", "false"}}
    \cup {UpdateHead \o pad \o t \o tail :
            pad \in Paddings, t \in Titles, tail \in UpdateTails}

InitRepairAgain ==
  /\ AtRest
  /\ pc = "fixSQLSyntax"
  /\ query \in OriginalTexts
  /\ sqlQuery \in QuotedInserts \cup QuotedUpdates \cup UnquotedStatements
  /\ finalSQL = ""
  /\ cleanedQuery = ""
  /\ intent = ""

\* fixSQLSyntax(sqlQuery, query), and then fixSQLSyntax of what it returned
\* with the same original text
RepairAgain ==
  \/ /\ pc = "fixSQLSyntax"
     /\ finalSQL' = fixSQLSyntax(sqlQuery, query)
     /\ pc' = "repaired"
     /\ UNCHANGED <<rest, query, sqlQuery, cleanedQuery, intent>>
  \/ /\ pc = "repaired"
     /\ sqlQuery' = finalSQL
     /\ finalSQL' = fixSQLSyntax(finalSQL, query)
     /\ pc' = "returned"
     /\ UNCHANGED <<rest, query, cleanedQuery, intent>>

NextRepairAgain == RepairAgain

SpecRepairAgain == InitRepairAgain /\ [][NextRepairAgain]_vars

\* C26: the Repairer returns an INSERT whose first VALUES argument is
\* single-quoted and an UPDATE whose SET title value is single-quoted
\* unchanged, and repairing a repaired statement again with the same
\* original text returns it unchanged.
C26_RepairIdempotent ==
  /\ (pc = "repaired" /\ sqlQuery \in QuotedInserts \cup QuotedUpdates) =>
       finalSQL = sqlQuery
  /\ pc = "returned" => finalSQL = sqlQuery

(***************************************************************************)
(* The verdict of provider B, located as the first balanced block          *)
(***************************************************************************)
\* the positions where the first block of text opened by a brace is closed
\* with as many closing braces as opening ones
BalancedEnds(text) ==
  LET start     == indexOf(text, "{")
      count(c, i) == Cardinality({j \in start..i : CharAt(text, j) = c})
  IN IF start = 0 THEN {}
     ELSE {i \in start..Len(text) :
             CharAt(text, i) = "}" /\ count("{", i) = count("}", i)}

\* the first balanced {...} block of the reply decoded, when there is one
\* and JSON.parse accepts it
ClaimedDecode(reply) ==
  IF reply.threw THEN [ok |-> FALSE]
  ELSE Val(<<reply.text, BalancedEnds(reply.text)>>, LAMBDA a :
         IF a[2] = {} THEN [ok |-> FALSE]
         ELSE Val(JSONparse(SubSeq(a[1], indexOf(a[1], "{"),
                                   CHOOSE i \in a[2] : \A j \in a[2] : i <= j)),
                  LAMBDA decoded :
                    IF decoded.threw THEN [ok |-> FALSE]
                    ELSE [ok |-> TRUE, parsed |-> decoded.value]))

ClaimedDecodedOf ==
  Table([r \in DOMAIN GeminiReplies |-> ClaimedDecode(GeminiReplies[r])])

\* the verdict made of that object: its suggestion passed through the
\* Extractor and then the Repairer
ClaimedVerdictOf ==
  Val(ClaimedDecodedOf, LAMBDA claimed :
    Table([k \in Queries \X {r \in DOMAIN GeminiReplies : claimed[r].ok} |->
             validateSQLWithGemini(k[1], "", claimed[k[2]])]))

\* C27: when the reply of provider B holds a decodable JSON verdict object
\* as its first balanced {...} block, the Validator returns that object as
\* the verdict, its suggestion passed through the Extractor and then the
\* Repairer, also when text with braces follows the block.
C27_VerdictIsFirstBalancedBlock ==
  (pc = "validated" /\ geminiReply \in DOMAIN ClaimedDecodedOf
     /\ ClaimedDecodedOf[geminiReply].ok) =>
    validation = ClaimedVerdictOf[<<query, geminiReply>>]

\* how many times the request has done e
Count(e) == Cardinality({i \in DOMAIN log : log[i] = e})

\* C28: within one request provider A is called at most once, provider B at
\* most once, and the mutation of the executor is sent to the row store at
\* most once, so a call that failed is not issued again; the request is
\* answered at most once, and exactly once when it has ended.
C28_NothingRetried ==
  /\ Count("providerA") <= 1
  /\ Count("providerB") <= 1
  /\ Count("store.insert") + Count("store.update") + Count("store.delete") <= 1
  /\ Count("responded") <= 1
  /\ pc = "responded" <=> Count("responded") = 1

\* a request ended by the failure of its insert, after one call of each
\* provider
C28_Witness ==
  /\ pc = "responded"
  /\ response.status = 500
  /\ Count("providerA") = 1
  /\ Count("providerB") = 1
  /\ Count("store.insert") = 1
  /\ log[Len(log) - 1] = "store.insert"

(***************************************************************************)
(* The page: the todo list set from the data of a successful answer        *)
(***************************************************************************)
\* part_003 lines 102-113: a row of the answer as a Todo of the page
mappedTodo(todoItem) ==
  [id |-> todoItem.id, title |-> todoItem.title, completed |-> todoItem.completed,
   createdAt |-> [date |-> todoItem.created_at]]

\* part_003 lines 97-117: the list handed to setTodos, todos being the list
\* the page holds
handleDataUpdate(todos, data) ==
  IF "todos" \in DOMAIN data
  THEN [i \in DOMAIN data.todos |-> mappedTodo(data.todos[i])]
  ELSE todos

\* part_005 lines 165-186: the list of the page once the answer to a chat
\* command has come
sendMessage(todos, result) ==
  IF result.success /\ "data" \in DOMAIN result
  THEN handleDataUpdate(todos, result.data)
  ELSE todos

\* C29: after a chat command answered with success=true the todo list of the
\* page holds the same records as the row store at the handler's read,
\* whichever statement was executed (whatever the page held before).
C29_PageEqualsStore ==
  (pc = "responded" /\ response.body.success) =>
    Range(sendMessage(<<>>, response.body)) = {mappedTodo(row) : row \in store}

(***************************************************************************)
(* The repaired INSERT handed to the executor                              *)
(***************************************************************************)
\* the INSERT statements with the unquoted-literal defect that are repaired
\* and executed
DefectiveInserts ==
  {Statement(c) : c \in {k \in InsertCases : k.keyword = "VALUES" /\ k.tail = ""}}

InitRepairedInsert ==
  /\ AtRest
  /\ pc = "fixSQLSyntax"
  /\ query \in OriginalTexts
  /\ sqlQuery \in DefectiveInserts
  /\ finalSQL = ""
  /\ cleanedQuery = ""
  /\ intent = ""

\* lines 153 and 513-566: the repaired statement is executed up to the call
\* of the row store
ExecuteRepaired ==
  /\ pc = "returned"
  /\ \E plan \in {executeSQLQuery(finalSQL)} :
       /\ milestones' = plan.ms
       /\ op' = IF plan.threw THEN NoOp ELSE plan.op
       /\ response' = IF plan.threw
                      THEN [status |-> 500,
                            body |-> [success |-> FALSE, error |-> plan.error]]
                      ELSE NoResponse
  /\ pc' = "store"
  /\ UNCHANGED <<config, store, nextId, request, queries, validation, log,
                 geminiReply, executed, waiting, query, cleanedQuery, intent,
                 sqlQuery, finalSQL>>

NextRepairedInsert == Repair \/ ExecuteRepaired

SpecRepairedInsert == InitRepairedInsert /\ [][NextRepairedInsert]_vars

\* C30: every statement the Repairer produces by rewriting an INSERT is
\* accepted by the grammar of the INSERT handler, for every original text,
\* also one with an apostrophe: executing the repaired INSERT does not fail
\* with the INSERT parse error.
C30_RepairedInsertParses ==
  (pc = "store" /\ finalSQL # sqlQuery) =>
    /\ response.status # 500
    /\ op.kind = "insert"

====
